---- MODULE Spec2Model ----
(***************************************************************************)
(* Discovery Operator of the Akri agent (agent/src/util/                   *)
(* discovery_operator.rs): handler sessions, the start_discovery           *)
(* supervisor and the reconciliation of discovered devices against the     *)
(* Instance Map.                                                           *)
(*                                                                         *)
(* Spec      handler sessions and the supervisor of one Configuration      *)
(* SpecLive  Spec with the fairness of the task scheduler                  *)
(* SpecSession  one do_discover, the calls of one session recorded         *)
(* SpecInst  reconciles and sweeps on the Instance Map of one Configuration*)
(* SpecCall  reconciles and sweeps that run alone, each summarised         *)
(* SpecStream  the select! loop of the sessions over their streams         *)
(* SpecShared  one Configuration beside another of the same protocol       *)
(* SpecWatch  the supervisor from its spawn of task 1, with handlers of    *)
(*            another protocol registering                                 *)
(* SpecGetStream  get_stream called on its own                             *)
(* SpecDigest  inner_generate_instance_digest called on its own            *)
(* SpecLocks  the tasks of one Configuration on the two locks              *)
(* SpecSweep  the sweeper beside one session, under the scheduler          *)
(* SpecEcho   the debugEcho discovery handler's discover stream            *)
(* SpecOnvif  the ONVIF discovery handler's discover stream                *)
(***************************************************************************)
EXTENDS Integers, Sequences, FiniteSets, TLC

(***************************************************************************)
(* Bounds of the model                                                     *)
(***************************************************************************)
\* the monotonic clock advances in steps of TickSecs seconds
TickSecs == 300
\* an Instant is kept as the seconds elapsed since it, up to MaxAge
MaxAge == 600
\* the calls of the observed session are recorded up to MaxLog of them
MaxLog == 4
\* try_delete_instance calls per instance are counted up to MaxDeleteCalls
MaxDeleteCalls == 2
\* a byte of a digest takes the values 0..MaxByte
MaxByte == 1
\* a response carries up to MaxResponseLen devices
MaxResponseLen == 2
\* a handler sends up to MaxResponses responses on one stream
MaxResponses == 3
\* new_discovery_handler_receiver holds up to MaxQueue notifications of
\* handlers of other protocols
MaxQueue == 1

(***************************************************************************)
(* Program constants                                                       *)
(***************************************************************************)
\* registration::DISCOVERY_HANDLER_OFFLINE_GRACE_PERIOD_SECS
DISCOVERY_HANDLER_OFFLINE_GRACE_PERIOD_SECS == 300
\* constants::SHARED_INSTANCE_OFFLINE_GRACE_PERIOD_SECS
SHARED_INSTANCE_OFFLINE_GRACE_PERIOD_SECS == 300
\* the output size given to VarBlake2b::new, in bytes
DigestLen == 3

\* registration::EMBEDDED_DISCOVERY_HANDLER_ENDPOINT
EMBEDDED_DISCOVERY_HANDLER_ENDPOINT == "embedded"
\* an endpoint under DISCOVERY_HANDLER_PATH, served by an external handler
UdsEndpoint == "uds"

Endpoints == {EMBEDDED_DISCOVERY_HANDLER_ENDPOINT, UdsEndpoint}
\* handlers that register with the agent after it has started
LateEndpoints == {UdsEndpoint}

\* config.spec.protocol.name, and the protocol of some other Configuration
ConfigProtocol == "debugEcho"
OtherProtocol == "onvif"

\* config.metadata.name
ConfigName == "config-a"
\* AGENT_NODE_NAME, as a string of characters
NodeName == <<"n">>
\* the ids of the devices the handlers report, as strings of characters
DeviceIds == {<<"c">>, <<"d">>}
\* the devices the handlers report while their calls interleave
InstDeviceIds == {<<"c">>}

\* the do_discover runs of one start_discovery: task 1, and one inner task of
\* task 2 per new-handler notification
InitialTask == "initial"
DiscoverTasks == {InitialTask} \cup LateEndpoints
Sessions == DiscoverTasks \X Endpoints

VARIABLES
    alive,          \* external handler endpoint -> its server accepts connections
    dh_map,         \* RegisteredDiscoveryHandlerMap[config protocol]: endpoint -> details
    pending_reg,    \* handlers that have not registered yet
    nh_rx,          \* new_discovery_handler_receiver of task 2: queued protocol names
    stop_sent,      \* stop_all_discovery_sender.send(()) has happened
    stop_rx2,       \* stop_all_discovery_receiver of task 2
    stop_rx3,       \* stop_all_discovery_receiver of task 3
    dd,             \* do_discover run -> position
    reconciled,     \* a discovery response has been passed to handle_discovery_results
    sess,           \* session task (do_discover run, endpoint) -> [pc, rx]
    t2pc,           \* position of task 2 (registration watcher)
    t3pc,           \* position of task 3 (offline sweeper)
    mainpc,         \* position of start_discovery itself
    hist,           \* the calls the observed session has made on the operator
    instance_map,   \* InstanceMap: instance name -> InstanceInfo
    rec,            \* handle_discovery_results / check_offline_status call in
                    \* progress, per caller
    api_deletes,    \* instance name -> try_delete_instance calls since it was built
    last,           \* the last call that ran alone, with what it did
    stream,         \* endpoint -> the discovery stream of its session and the
                    \* stop_discovery receiver, as internal_do_discover sees them
    other_clients,  \* the endpoints to which a session of another Configuration
                    \* of the same protocol holds a stream
    gs,             \* a call of get_stream: its inputs and what it returned
    blake,          \* VarBlake2b::new(3): hashed string -> the bytes of its digest
    digests,        \* the calls of inner_generate_instance_digest made so far
    dh_mutex,       \* the task that holds the lock of the RegisteredDiscoveryHandlerMap
    im_mutex,       \* the task that holds the lock of the InstanceMap
    lpc,            \* task -> the statement it is at, as far as the locks go
    other_stopped,  \* the endpoints whose session of the other Configuration has
                    \* a stop message in its stop_discovery receiver
    file_offline,   \* debugEcho: the availability file contains OFFLINE
    echo,           \* debugEcho: the locals of discover and of its spawned loop
    echo_ch,        \* debugEcho: the responses in the mpsc channel of the stream
    echo_rx,        \* debugEcho: the caller still holds the receiver
    onvif,          \* ONVIF: the locals of discover and of its spawned loop
    onvif_ch,       \* ONVIF: the responses in the mpsc channel of the stream
    onvif_rx,       \* ONVIF: the caller still holds the receiver
    shutdown,       \* ONVIF: the handler's shutdown_sender and the signals sent on it
    onvif_sent      \* ONVIF: the device list of the last response handed to the channel

hvars == <<alive, dh_map, pending_reg, nh_rx, stop_sent,
           stop_rx2, stop_rx3, dd, reconciled, sess, t2pc, t3pc, mainpc>>

ivars == <<instance_map, rec, api_deletes, last>>

pvars == <<gs, blake, digests>>

lvars == <<dh_mutex, im_mutex, lpc>>

\* the state beside the operator's maps, sessions and calls
evars == <<file_offline, echo, echo_ch, echo_rx>>

ovars == <<onvif, onvif_ch, onvif_rx, shutdown, onvif_sent>>

xvars == <<lvars, other_stopped, evars, ovars>>

vars == <<hvars, hist, ivars, stream, other_clients, pvars, xvars>>

(***************************************************************************)
(* Registered-Handler Map                                                  *)
(***************************************************************************)
\* RegisterRequest.is_local of the handler at an endpoint
IsLocal(e) == e = EMBEDDED_DISCOVERY_HANDLER_ENDPOINT

\* DiscoveryHandlerDetails; since is meaningful for Offline only
Details(e, cs, since) == [is_local |-> IsLocal(e), cs |-> cs, since |-> since]

MapRemove(m, e) == [x \in DOMAIN m \ {e} |-> m[x]]
MapInsert(m, e, v) == [x \in DOMAIN m \cup {e} |-> IF x = e THEN v ELSE m[x]]

\* Instant::now(), and instant.elapsed().as_secs()
InstantNow == 0
Elapsed(instant) == instant
\* an Instant after TickSecs more seconds
Advance(instant) == IF instant + TickSecs <= MaxAge THEN instant + TickSecs ELSE MaxAge

\* set_discovery_handler_connectivity_status that inserts the entry when the
\* map has none for the endpoint
set_or_insert_connectivity_status(m, e, cs) ==
    MapInsert(m, e, Details(e, cs, InstantNow))

\* set_discovery_handler_connectivity_status
set_discovery_handler_connectivity_status(m, e, cs) ==
    IF e \in DOMAIN m
    THEN MapInsert(m, e, [m[e] EXCEPT !.cs = cs, !.since = InstantNow])
    ELSE m

\* mark_offline_or_deregister_discovery_handler that deregisters as soon as the
\* grace period is reached
mark_offline_or_deregister_at_grace(m, e) ==
    IF e \notin DOMAIN m
    THEN [map |-> m, deregistered |-> FALSE]
    ELSE CASE m[e].cs = "Offline" ->
                IF Elapsed(m[e].since) >= DISCOVERY_HANDLER_OFFLINE_GRACE_PERIOD_SECS
                THEN [map |-> MapRemove(m, e), deregistered |-> TRUE]
                ELSE [map |-> m, deregistered |-> FALSE]
           [] m[e].cs = "Online" ->
                [map |-> MapInsert(m, e, [m[e] EXCEPT !.cs = "Offline", !.since = InstantNow]),
                 deregistered |-> FALSE]
           [] m[e].cs = "HasClient" ->
                [map |-> m, deregistered |-> FALSE]

\* mark_offline_or_deregister_discovery_handler that restarts the grace
\* period of an entry that is Offline within it
mark_offline_or_deregister_restarting_grace(m, e) ==
    IF e \notin DOMAIN m
    THEN [map |-> m, deregistered |-> FALSE]
    ELSE CASE m[e].cs = "Offline" ->
                IF Elapsed(m[e].since) > DISCOVERY_HANDLER_OFFLINE_GRACE_PERIOD_SECS
                THEN [map |-> MapRemove(m, e), deregistered |-> TRUE]
                ELSE [map |-> MapInsert(m, e, [m[e] EXCEPT !.since = InstantNow]),
                      deregistered |-> FALSE]
           [] m[e].cs = "Online" ->
                [map |-> MapInsert(m, e, [m[e] EXCEPT !.cs = "Offline", !.since = InstantNow]),
                 deregistered |-> FALSE]
           [] m[e].cs = "HasClient" ->
                [map |-> m, deregistered |-> FALSE]

\* mark_offline_or_deregister_discovery_handler: the map afterwards and the
\* returned flag
mark_offline_or_deregister_discovery_handler(m, e) ==
    IF e \notin DOMAIN m
    THEN [map |-> m, deregistered |-> FALSE]
    ELSE CASE m[e].cs = "Offline" ->
                IF Elapsed(m[e].since) > DISCOVERY_HANDLER_OFFLINE_GRACE_PERIOD_SECS
                THEN [map |-> MapRemove(m, e), deregistered |-> TRUE]
                ELSE [map |-> m, deregistered |-> FALSE]
           [] m[e].cs = "Online" ->
                [map |-> MapInsert(m, e, [m[e] EXCEPT !.cs = "Offline", !.since = InstantNow]),
                 deregistered |-> FALSE]
           [] m[e].cs = "HasClient" ->
                [map |-> m, deregistered |-> FALSE]

(***************************************************************************)
(* Environment: the clock, the handlers, the registration server           *)
(***************************************************************************)
\* the Offline instants of the map after TickSecs more seconds
AdvanceMap(m) ==
    [e \in DOMAIN m |->
        IF m[e].cs = "Offline" THEN [m[e] EXCEPT !.since = Advance(m[e].since)] ELSE m[e]]

Tick ==
    /\ dh_map' = AdvanceMap(dh_map)
    /\ dh_map' # dh_map
    /\ UNCHANGED <<xvars, pvars, other_clients, stream, ivars, hist, reconciled, alive, pending_reg, nh_rx, stop_sent,
                   stop_rx2, stop_rx3, dd, sess, t2pc, t3pc, mainpc>>

\* the server of an external handler goes away or comes (back) up
HandlerDown(e) ==
    /\ alive[e]
    /\ alive' = [alive EXCEPT ![e] = FALSE]
    /\ UNCHANGED <<xvars, pvars, other_clients, stream, ivars, hist, reconciled, dh_map, pending_reg, nh_rx, stop_sent,
                   stop_rx2, stop_rx3, dd, sess, t2pc, t3pc, mainpc>>

HandlerUp(e) ==
    /\ ~alive[e]
    /\ alive' = [alive EXCEPT ![e] = TRUE]
    /\ UNCHANGED <<xvars, pvars, other_clients, stream, ivars, hist, reconciled, dh_map, pending_reg, nh_rx, stop_sent,
                   stop_rx2, stop_rx3, dd, sess, t2pc, t3pc, mainpc>>

\* a sender's message reaches a receiver that still exists
Notify(queue, live, msg) == IF live THEN Append(queue, msg) ELSE queue

\* the registration server inserts a handler of the Configuration's protocol
\* and announces the protocol on new_discovery_handler_sender
Register(e) ==
    /\ e \in pending_reg
    /\ pending_reg' = pending_reg \ {e}
    /\ dh_map' = MapInsert(dh_map, e, Details(e, "Online", InstantNow))
    /\ nh_rx' = Notify(nh_rx, t2pc = "select", ConfigProtocol)
    /\ UNCHANGED <<xvars, pvars, other_clients, stream, ivars, hist, reconciled, alive, stop_sent, stop_rx2, stop_rx3, dd,
                   sess, t2pc, t3pc, mainpc>>

\* the Configuration is deleted: stop_all_discovery_sender.send(())
SendStop ==
    /\ ~stop_sent
    /\ stop_sent' = TRUE
    /\ stop_rx2' = IF t2pc = "select" THEN "msg" ELSE stop_rx2
    /\ stop_rx3' = IF t3pc = "loop" THEN "msg" ELSE stop_rx3
    /\ UNCHANGED <<xvars, pvars, other_clients, stream, ivars, hist, reconciled, alive, dh_map, pending_reg, nh_rx, dd,
                   sess, t2pc, t3pc, mainpc>>

(***************************************************************************)
(* do_discover                                                             *)
(***************************************************************************)
\* the check of do_discover before it spawns a session for an entry
NeedsClient(details) == details.cs # "HasClient"

\* do_discover clones the map and spawns a session for every entry of the
\* clone that has no client
DoDiscover(d) ==
    /\ dd[d] = "start"
    /\ dd' = [dd EXCEPT ![d] = "join"]
    /\ sess' = [s \in Sessions |->
                  IF s[1] = d /\ s[2] \in DOMAIN dh_map /\ NeedsClient(dh_map[s[2]])
                  THEN [pc |-> "get_stream", rx |-> "none"]
                  ELSE sess[s]]
    /\ UNCHANGED <<xvars, pvars, other_clients, stream, ivars, hist, reconciled, alive, dh_map, pending_reg, nh_rx,
                   stop_sent, stop_rx2, stop_rx3, t2pc, t3pc, mainpc>>

\* a task has ended, normally or by a panic
Ended(pc) == pc \in {"done", "panicked"}
\* a join that completes as soon as one of the tasks has completed
join_first_completed(pcs) ==
    IF "panicked" \in pcs THEN "err"
    ELSE IF "done" \in pcs \/ pcs \subseteq {"none"} THEN "ok"
    ELSE "pending"

\* futures::future::try_join_all over the JoinHandles with positions pcs:
\* "ok" when all have completed, "err" as soon as one has panicked
try_join_all(pcs) ==
    IF "panicked" \in pcs THEN "err"
    ELSE IF pcs \subseteq {"none", "done"} THEN "ok"
    ELSE "pending"

\* a joining task moves on: it completes, or its unwrap of the error panics
Joined(pcs) ==
    CASE try_join_all(pcs) = "ok" -> "done"
      [] try_join_all(pcs) = "err" -> "panicked"
      [] OTHER -> "join"

SessionPcsOf(d) == {sess[s].pc : s \in {x \in Sessions : x[1] = d}}

DoDiscoverJoin(d) ==
    /\ dd[d] = "join"
    /\ Joined(SessionPcsOf(d)) # "join"
    /\ dd' = [dd EXCEPT ![d] = Joined(SessionPcsOf(d))]
    /\ UNCHANGED <<xvars, pvars, other_clients, stream, ivars, hist, reconciled, alive, dh_map, pending_reg, nh_rx,
                   stop_sent, stop_rx2, stop_rx3, sess, t2pc, t3pc, mainpc>>

(***************************************************************************)
(* The session task that do_discover spawns per endpoint                   *)
(***************************************************************************)
\* the session whose calls on the operator are recorded, when any is
ObservedSession == <<InitialTask, UdsEndpoint>>

\* the call on the operator that takes a session from one position to another:
\* set_discovery_handler_connectivity_status(HasClient / Online), or
\* mark_offline_or_deregister_discovery_handler with its result
CallBetween(pc_before, pc_after) ==
    CASE pc_before = "get_stream" /\ pc_after = "connected" -> <<"HasClient">>
      [] pc_before = "select" /\ pc_after = "done" -> <<"Online">>
      [] pc_before \in {"get_stream", "err_broken_pipe"} /\ pc_after = "sleep" ->
            <<"mark_offline">>
      [] pc_before \in {"get_stream", "err_broken_pipe"} /\ pc_after = "done" ->
            <<"deregistered">>
      [] OTHER -> <<>>

Observe(h, before, after) ==
    IF h.on /\ Len(h.log) < MaxLog
    THEN [h EXCEPT !.log = h.log \o CallBetween(before[ObservedSession].pc,
                                                after[ObservedSession].pc)]
    ELSE h

SessionFrame ==
    /\ hist' = Observe(hist, sess, sess')
    /\ UNCHANGED <<xvars, pvars, other_clients, stream, ivars, alive, pending_reg, nh_rx,
                   stop_sent, stop_rx2, stop_rx3, dd, t2pc, t3pc, mainpc>>

\* get_stream can connect: the embedded handler is in-process
Reachable(e) == IF e = EMBEDDED_DISCOVERY_HANDLER_ENDPOINT THEN TRUE ELSE alive[e]

\* the session after mark_offline_or_deregister_discovery_handler returned
AfterMark(s, r) ==
    /\ dh_map' = r.map
    /\ sess' = [sess EXCEPT ![s] = [pc |-> IF r.deregistered THEN "done" ELSE "sleep",
                                    rx |-> "none"]]

\* get_stream returns Some(stream): the entry is marked HasClient
GetStreamSome(s) ==
    /\ sess[s].pc = "get_stream"
    /\ Reachable(s[2])
    /\ dh_map' = set_discovery_handler_connectivity_status(dh_map, s[2], "HasClient")
    /\ sess' = [sess EXCEPT ![s].pc = "connected"]
    /\ UNCHANGED reconciled
    /\ SessionFrame

\* get_stream returns None
GetStreamNone(s) ==
    /\ sess[s].pc = "get_stream"
    /\ ~Reachable(s[2])
    /\ AfterMark(s, mark_offline_or_deregister_discovery_handler(dh_map, s[2]))
    /\ UNCHANGED reconciled
    /\ SessionFrame

\* the handler rejects the Discover call: get_stream unwraps the error
GetStreamPanic(s) ==
    /\ sess[s].pc = "get_stream"
    /\ Reachable(s[2])
    /\ sess' = [sess EXCEPT ![s].pc = "panicked"]
    /\ UNCHANGED dh_map
    /\ UNCHANGED reconciled
    /\ SessionFrame

\* internal_do_discover: dh_details.stop_discovery.subscribe()
Subscribe(s) ==
    /\ sess[s].pc = "connected"
    /\ sess' = [sess EXCEPT ![s] = [pc |-> "select", rx |-> "sub"]]
    /\ UNCHANGED dh_map
    /\ UNCHANGED reconciled
    /\ SessionFrame

\* the entry is set Online and the session goes on to reconnect
SessionOkThenRetry(s) ==
    /\ dh_map' = set_discovery_handler_connectivity_status(dh_map, s[2], "Online")
    /\ sess' = [sess EXCEPT ![s] = [pc |-> "sleep", rx |-> "none"]]

\* internal_do_discover returned Ok(()): the entry is set Online, the session ends
SessionOk(s) ==
    /\ dh_map' = set_discovery_handler_connectivity_status(dh_map, s[2], "Online")
    /\ sess' = [sess EXCEPT ![s] = [pc |-> "done", rx |-> "none"]]

\* select!: the stop message arrived
RecvStop(s) ==
    /\ sess[s].pc = "select"
    /\ sess[s].rx = "msg"
    /\ SessionOk(s)
    /\ UNCHANGED reconciled
    /\ SessionFrame

\* select!: the stream yields Some(response); handle_discovery_results returns
\* Ok, or its result is unwrapped and the task panics
StreamMessage(s, ok) ==
    /\ sess[s].pc = "select"
    /\ reconciled' = TRUE
    /\ sess' = IF ok THEN sess ELSE [sess EXCEPT ![s] = [pc |-> "panicked", rx |-> "none"]]
    /\ UNCHANGED dh_map
    /\ SessionFrame

\* select!: the stream yields None
StreamNone(s) ==
    /\ sess[s].pc = "select"
    /\ SessionOk(s)
    /\ UNCHANGED reconciled
    /\ SessionFrame

\* select!: the external stream yields Err(status) with "broken pipe" in its message
StreamBrokenPipe(s) ==
    /\ sess[s].pc = "select"
    /\ s[2] # EMBEDDED_DISCOVERY_HANDLER_ENDPOINT
    /\ sess' = [sess EXCEPT ![s] = [pc |-> "err_broken_pipe", rx |-> "none"]]
    /\ UNCHANGED dh_map
    /\ UNCHANGED reconciled
    /\ SessionFrame

\* the session handles the broken pipe
OnBrokenPipe(s) ==
    /\ sess[s].pc = "err_broken_pipe"
    /\ AfterMark(s, mark_offline_or_deregister_discovery_handler(dh_map, s[2]))
    /\ UNCHANGED reconciled
    /\ SessionFrame

\* select!: the external stream yields another Err(status): the entry is set
\* Online and the session ends
StreamOtherError(s) ==
    /\ sess[s].pc = "select"
    /\ s[2] # EMBEDDED_DISCOVERY_HANDLER_ENDPOINT
    /\ SessionOk(s)
    /\ UNCHANGED reconciled
    /\ SessionFrame

\* the reconnect backoff is over
Wake(s) ==
    /\ sess[s].pc = "sleep"
    /\ sess' = [sess EXCEPT ![s].pc = "get_stream"]
    /\ UNCHANGED dh_map
    /\ UNCHANGED reconciled
    /\ SessionFrame

(***************************************************************************)
(* start_discovery: tasks 2 and 3 and the final join                       *)
(***************************************************************************)
\* stop_all_discovery: send on the stop_discovery channel of every entry of
\* the map; a receiver gets it only if it was subscribed
stop_all_discovery(ss, m) ==
    [s \in Sessions |->
        IF s[2] \in DOMAIN m /\ ss[s].rx = "sub"
        THEN [ss[s] EXCEPT !.rx = "msg"]
        ELSE ss[s]]

\* dh_details.stop_discovery.send(()) of stop_all_discovery: the message
\* reaches every receiver subscribed to the entry's sender, also those of the
\* sessions of another Configuration that hold a stream to the endpoint
stop_discovery_send(stopped, clients, m) ==
    stopped \cup {e \in clients : e \in DOMAIN m}

\* task 2, select!: the stop message
T2Stop ==
    /\ t2pc = "select"
    /\ stop_rx2 = "msg"
    /\ sess' = stop_all_discovery(sess, dh_map)
    /\ other_stopped' = stop_discovery_send(other_stopped, other_clients, dh_map)
    /\ t2pc' = "join"
    /\ stop_rx2' = "empty"
    /\ nh_rx' = <<>>
    /\ UNCHANGED <<lvars, evars, ovars, pvars, other_clients, stream, ivars, hist, reconciled, alive, dh_map, pending_reg, stop_sent,
                   stop_rx3, dd, t3pc, mainpc>>

\* task 2 taking every notification for one of its protocol
AnyProtocol(protocol) == protocol \in {ConfigProtocol, OtherProtocol}

\* task 2: protocol == task2_discovery_operator.get_config().spec.protocol.name
IsThisProtocol(protocol) == protocol = ConfigProtocol

\* task 2, select!: a new-handler notification; it spawns do_discover when the
\* protocol is the Configuration's
T2NewHandler ==
    /\ t2pc = "select"
    /\ nh_rx # <<>>
    /\ nh_rx' = Tail(nh_rx)
    /\ IF IsThisProtocol(Head(nh_rx))
       THEN \E d \in LateEndpoints :
               /\ dd[d] = "none"
               /\ dd' = [dd EXCEPT ![d] = "start"]
       ELSE UNCHANGED dd
    /\ UNCHANGED <<xvars, pvars, other_clients, stream, ivars, hist, reconciled, alive, dh_map, pending_reg, stop_sent,
                   stop_rx2, stop_rx3, sess, t2pc, t3pc, mainpc>>

InnerTaskPcs == {dd[d] : d \in LateEndpoints}

\* task 2: try_join_all(inner_tasks).await.unwrap()
T2Join ==
    /\ t2pc = "join"
    /\ Joined(InnerTaskPcs) # "join"
    /\ t2pc' = Joined(InnerTaskPcs)
    /\ UNCHANGED <<xvars, pvars, other_clients, stream, ivars, hist, reconciled, alive, dh_map, pending_reg, nh_rx,
                   stop_sent, stop_rx2, stop_rx3, dd, sess, t3pc, mainpc>>

\* task 3: one round of the loop: check_offline_status returns and its
\* result is unwrapped, then timeout(30 s, stop_all_discovery_receiver.recv());
\* the check can fail only on an instance, that is after a reconcile
T3Round(ok) ==
    /\ t3pc = "loop"
    /\ ok \/ reconciled
    /\ t3pc' = IF ~ok THEN "panicked" ELSE IF stop_rx3 = "msg" THEN "done" ELSE "loop"
    /\ stop_rx3' = "empty"
    /\ UNCHANGED <<xvars, pvars, other_clients, stream, ivars, hist, reconciled, alive, dh_map, pending_reg, nh_rx,
                   stop_sent, stop_rx2, dd, sess, t2pc, mainpc>>

ChildTaskPcs == {dd[InitialTask], t2pc, t3pc}

\* the position of start_discovery after try_join_all(tasks).await?
AfterJoin(pcs) ==
    CASE try_join_all(pcs) = "ok" -> "finished"
      [] try_join_all(pcs) = "err" -> "failed"
      [] OTHER -> "join"

\* start_discovery: try_join_all(tasks).await?; finished_all_discovery_sender.send(())
MainJoin ==
    /\ mainpc = "join"
    /\ AfterJoin(ChildTaskPcs) # "join"
    /\ mainpc' = AfterJoin(ChildTaskPcs)
    /\ UNCHANGED <<xvars, pvars, other_clients, stream, ivars, hist, reconciled, alive, dh_map, pending_reg, nh_rx,
                   stop_sent, stop_rx2, stop_rx3, dd, sess, t2pc, t3pc>>

(***************************************************************************)
(* Instance Map: handle_discovery_results, update_connectivity_status and  *)
(* check_offline_status                                                    *)
(***************************************************************************)
\* generate_instance_digest on the node NodeName; a digest is represented by
\* the string that is hashed: on the ids of the model VarBlake2b is taken to
\* have no collision
generate_instance_digest(id, shared) ==
    IF shared THEN id ELSE id \o NodeName

\* device_plugin_service::get_device_instance_name
get_device_instance_name(digest, config_name) == <<config_name, "-">> \o digest

\* the instance name with the digest of a device whose sharedness is is_local
InstanceNameUnshared(id, is_local) ==
    get_device_instance_name(generate_instance_digest(id, is_local), ConfigName)

InstanceName(id, is_local) ==
    get_device_instance_name(generate_instance_digest(id, ~is_local), ConfigName)

\* the callers: the session of each handler, and task 3
Sweeper == "sweeper"
Reconcilers == Endpoints \cup {Sweeper}

\* InstanceInfo: the connectivity status and the list_and_watch_message_sender,
\* which belongs to a device plugin built with shared = plugin_shared
InstanceInfo(cs, since, shared) == [cs |-> cs, since |-> since, plugin_shared |-> shared]

IdleCall == [pc |-> "idle", visible |-> {}, newdev |-> {}, todo |-> <<>>]

\* the instance names the handlers' devices can get
InstanceNames == {InstanceName(id, l) : id \in DeviceIds, l \in BOOLEAN}

\* k8s::try_delete_instance_arc is called for instance n
CountDelete(calls, n) ==
    [calls EXCEPT ![n] = IF @ < MaxDeleteCalls THEN @ + 1 ELSE @]

\* update_connectivity_status, were the notifier of a visible instance told
\* to Continue on every response
update_connectivity_status_always_notify(info, visible, is_local) ==
    IF visible
    THEN "set_online"
    ELSE IF info.cs = "Online"
         THEN IF is_local THEN "remove" ELSE "set_offline"
         ELSE IF Elapsed(info.since) >= SHARED_INSTANCE_OFFLINE_GRACE_PERIOD_SECS
              THEN "remove"
              ELSE "keep"

\* update_connectivity_status: what is done with one instance of the snapshot
update_connectivity_status(info, visible, is_local) ==
    IF visible
    THEN IF info.cs = "Offline" THEN "set_online" ELSE "keep"
    ELSE IF info.cs = "Online"
         THEN IF is_local THEN "remove" ELSE "set_offline"
         ELSE IF Elapsed(info.since) >= SHARED_INSTANCE_OFFLINE_GRACE_PERIOD_SECS
              THEN "remove"
              ELSE "keep"

\* check_offline_status without a grace period
check_offline_status_no_grace(info) ==
    IF info.cs = "Offline" THEN "remove" ELSE "keep"

\* check_offline_status, were the grace period to be exceeded
check_offline_status_past_grace(info) ==
    IF info.cs = "Offline"
       /\ Elapsed(info.since) > SHARED_INSTANCE_OFFLINE_GRACE_PERIOD_SECS
    THEN "remove"
    ELSE "keep"

\* check_offline_status: what is done with one instance of the snapshot
check_offline_status(info) ==
    IF info.cs = "Offline"
       /\ Elapsed(info.since) >= SHARED_INSTANCE_OFFLINE_GRACE_PERIOD_SECS
    THEN "remove"
    ELSE "keep"

\* device_plugin_service::terminate_device_plugin_service: the instance leaves
\* the map; nothing happens when it is already gone
terminate_device_plugin_service(m, n) == IF n \in DOMAIN m THEN MapRemove(m, n) ELSE m

\* the Instance Map after the decision for instance n, taken on info
ApplyDecision(m, n, info, decision) ==
    CASE decision = "set_online" ->
            MapInsert(m, n, [info EXCEPT !.cs = "Online", !.since = InstantNow])
      [] decision = "set_offline" ->
            MapInsert(m, n, [info EXCEPT !.cs = "Offline", !.since = InstantNow])
      [] decision = "remove" -> terminate_device_plugin_service(m, n)
      [] OTHER -> m

\* handle_discovery_results: the visible instances of the response and those
\* among them that have no entry in the Instance Map
StartCall(p, ids) ==
    LET visible == {InstanceName(id, IsLocal(p)) : id \in ids}
    IN [pc |-> "lock", visible |-> visible,
        newdev |-> {n \in visible : n \notin DOMAIN instance_map},
        todo |-> <<>>]

\* a response with the devices ids reaches handle_discovery_results of the
\* session of handler p
HandleDiscoveryResults(p, ids) ==
    /\ p \in Endpoints
    /\ rec[p].pc = "idle"
    /\ rec' = [rec EXCEPT ![p] = StartCall(p, ids)]
    /\ UNCHANGED <<xvars, pvars, hvars, other_clients, stream, hist, last, instance_map, api_deletes>>

\* the instances of a map with their connectivity and the shared flag their
\* device plugin was built with
StatusOf(m) ==
    [n \in DOMAIN m |-> [cs |-> m[n].cs, plugin_shared |-> m[n].plugin_shared]]

\* the summary of a call that ran alone, before any has run: the caller, the
\* response, the instances the call found (pre), the Build calls per
\* instance name and their shared argument, the names whose Build failed,
\* the DeleteInstance calls, the instances whose notifier got a Continue,
\* whether the call repeats the one before it (again), whether time passed
\* since that one (gap) and a Build failed in it (prev_failed), the visible
\* names whose Build failed in that one if it was the caller's (owed), and
\* whether time has passed since the call returned (ticked)
NoCall ==
    [caller |-> "none", resp |-> <<>>, pre |-> <<>>,
     builds |-> [n \in InstanceNames |-> 0], shared |-> FALSE,
     failed |-> {}, deletes |-> {}, continues |-> {},
     again |-> FALSE, gap |-> FALSE, prev_failed |-> FALSE, owed |-> {},
     ticked |-> FALSE]

\* where a call goes after update_connectivity_status has returned Ok
AfterUpdate(call) ==
    IF call.newdev # {} THEN [call EXCEPT !.pc = "build", !.todo = <<>>] ELSE IdleCall

\* the call after it has dealt with instance n of its snapshot
AfterInstance(p, call, n, ok) ==
    IF ~ok THEN [IdleCall EXCEPT !.pc = "panicked"]
    ELSE IF DOMAIN call.todo = {n}
         THEN IF p = Sweeper THEN IdleCall ELSE AfterUpdate(call)
         ELSE [call EXCEPT !.todo = MapRemove(call.todo, n)]

\* update_connectivity_status / check_offline_status: the clone of the map
\* that the loop runs over
LockAndClone(p) ==
    /\ rec[p].pc = IF p = Sweeper THEN "idle" ELSE "lock"
    /\ rec' = [rec EXCEPT ![p] =
                 IF instance_map = <<>>
                 THEN IF p = Sweeper THEN IdleCall ELSE AfterUpdate(rec[p])
                 ELSE [rec[p] EXCEPT !.pc = "update", !.todo = instance_map]]
    /\ rec' # rec
    /\ UNCHANGED <<xvars, pvars, hvars, other_clients, stream, hist, last, instance_map, api_deletes>>

Decision(p, n) ==
    IF p = Sweeper
    THEN check_offline_status(rec[p].todo[n])
    ELSE update_connectivity_status(rec[p].todo[n], n \in rec[p].visible, IsLocal(p))

\* one round of the loop over the clone, for instance n; deleted tells whether
\* try_delete_instance succeeded when the instance is removed
UpdateInstance(p, n, deleted) ==
    /\ rec[p].pc = "update"
    /\ n \in DOMAIN rec[p].todo
    /\ deleted \/ Decision(p, n) = "remove"
    /\ instance_map' = ApplyDecision(instance_map, n, rec[p].todo[n], Decision(p, n))
    /\ api_deletes' = IF Decision(p, n) = "remove"
                      THEN CountDelete(api_deletes, n)
                      ELSE api_deletes
    /\ rec' = [rec EXCEPT ![p] = AfterInstance(p, rec[p], n, deleted)]
    /\ UNCHANGED <<xvars, pvars, hvars, other_clients, stream, hist, last>>

\* device_plugin_builder::build_device_plugin for one new instance: on success
\* the instance enters the map Online
BuildDevicePlugin(p, n, built) ==
    /\ p \in Endpoints
    /\ rec[p].pc = "build"
    /\ n \in rec[p].newdev
    /\ instance_map' = IF built
                       THEN MapInsert(instance_map, n, InstanceInfo("Online", InstantNow, ~IsLocal(p)))
                       ELSE instance_map
    /\ rec' = [rec EXCEPT ![p] =
                 IF rec[p].newdev = {n} THEN IdleCall
                 ELSE [rec[p] EXCEPT !.newdev = rec[p].newdev \ {n}]]
    /\ api_deletes' = IF built THEN [api_deletes EXCEPT ![n] = 0] ELSE api_deletes
    /\ UNCHANGED <<xvars, pvars, hvars, other_clients, stream, hist, last>>

\* the Offline instants of an Instance Map or a clone of it after TickSecs
AdvanceInstances(m) ==
    [n \in DOMAIN m |->
        IF m[n].cs = "Offline" THEN [m[n] EXCEPT !.since = Advance(m[n].since)] ELSE m[n]]

InstTick ==
    /\ instance_map' = AdvanceInstances(instance_map)
    /\ rec' = [p \in Reconcilers |-> [rec[p] EXCEPT !.todo = AdvanceInstances(rec[p].todo)]]
    /\ <<instance_map', rec'>> # <<instance_map, rec>>
    /\ UNCHANGED <<xvars, pvars, hvars, other_clients, stream, hist, last, api_deletes>>

(***************************************************************************)
(* The two locks: the std Mutex of the RegisteredDiscoveryHandlerMap and   *)
(* the tokio Mutex of the InstanceMap, as the statements of the tasks take *)
(* and drop them                                                           *)
(***************************************************************************)
Free == "free"
DhMutex == "discovery_handler_map"
ImMutex == "instance_map"

\* the tasks: the session of each handler, task 3 and task 2
Watcher == "watcher"
LockTasks == Endpoints \cup {Sweeper, Watcher}

\* the lock a statement takes for itself, in a guard that is a temporary of
\* the statement (of the whole `if let` for the two status functions)
Locks(pos) ==
    CASE pos \in {"set_has_client", "set_online", "mark_offline",
                  "do_discover_clone", "stop_all_clone"} -> {DhMutex}
      [] pos \in {"hdr_clone", "ucs_clone", "insert", "cos_clone",
                  "terminate_locked", "sw_terminate_locked", "build_locked"} -> {ImMutex}
      [] OTHER -> {}

\* the statements at which a task is suspended: an .await other than the
\* lock of the InstanceMap
AwaitPositions ==
    {"get_stream", "select", "sleep", "terminate_call", "delete", "build_call",
     "timeout", "sw_terminate_call", "sw_delete", "t2_select"}

\* the calls into functions that lock the InstanceMap themselves
LockingCalls == {"terminate_call", "sw_terminate_call", "build_call"}

\* the order of the statements
Succ(pos) ==
    CASE pos = "get_stream" -> {"set_has_client", "mark_offline"}
      [] pos = "set_has_client" -> {"select"}
      [] pos = "select" -> {"hdr_clone", "set_online", "mark_offline"}
      [] pos = "set_online" -> {"ended"}
      [] pos = "mark_offline" -> {"sleep", "ended"}
      [] pos = "sleep" -> {"get_stream"}
      [] pos = "hdr_clone" -> {"hdr_filter"}
      [] pos = "hdr_filter" -> {"ucs_clone"}
      [] pos = "ucs_clone" -> {"ucs_loop"}
      [] pos = "ucs_loop" -> {"insert", "terminate_call", "build_loop"}
      [] pos = "insert" -> {"send"}
      [] pos = "send" -> {"ucs_loop"}
      [] pos = "terminate_call" -> {"terminate_locked"}
      [] pos = "terminate_locked" -> {"delete"}
      [] pos = "delete" -> {"ucs_loop"}
      [] pos = "build_loop" -> {"build_call", "select"}
      [] pos = "build_call" -> {"build_locked"}
      [] pos = "build_locked" -> {"build_loop"}
      [] pos = "timeout" -> {"cos_clone", "ended"}
      [] pos = "cos_clone" -> {"cos_loop"}
      [] pos = "cos_loop" -> {"sw_terminate_call", "timeout"}
      [] pos = "sw_terminate_call" -> {"sw_terminate_locked"}
      [] pos = "sw_terminate_locked" -> {"sw_delete"}
      [] pos = "sw_delete" -> {"cos_loop"}
      [] pos = "t2_select" -> {"do_discover_clone", "stop_all_clone"}
      [] pos = "do_discover_clone" -> {"t2_select"}
      [] pos = "stop_all_clone" -> {"stop_all_send"}
      [] pos = "stop_all_send" -> {"ended"}
      [] OTHER -> {}

\* the first statement of a task
Entry(t) ==
    IF t = Sweeper THEN "timeout" ELSE IF t = Watcher THEN "t2_select" ELSE "get_stream"

\* a guard of the InstanceMap that is bound to a variable of
\* update_connectivity_status and lives through its loop
im_guard_bound_in_loop(pos) == pos \in {"ucs_loop", "terminate_call", "delete", "send"}

\* a guard of the RegisteredDiscoveryHandlerMap that lives on after
\* set_discovery_handler_connectivity_status
dh_guard_outlives_call(pos) == pos = "select"

\* the guard of an earlier statement is still alive at pos: never, every
\* guard is a temporary
im_guard_kept(pos) == FALSE
dh_guard_kept(pos) == FALSE

\* what becomes of a mutex when task t goes on to statement to
AfterStep(holder, t, locked, kept) ==
    IF locked THEN t
    ELSE IF holder = t /\ ~kept THEN Free
    ELSE holder

\* task t goes on to the statement to: a statement that locks waits until
\* the mutex is free
LockStepTo(t, to) ==
    /\ to \in Succ(lpc[t])
    /\ DhMutex \in Locks(to) => dh_mutex = Free
    /\ ImMutex \in Locks(to) => im_mutex = Free
    /\ lpc' = [lpc EXCEPT ![t] = to]
    /\ dh_mutex' = AfterStep(dh_mutex, t, DhMutex \in Locks(to), dh_guard_kept(to))
    /\ im_mutex' = AfterStep(im_mutex, t, ImMutex \in Locks(to), im_guard_kept(to))
    /\ UNCHANGED <<hvars, hist, ivars, stream, other_clients, pvars, other_stopped, evars, ovars>>

SessionLockStep(t) == \E to \in Succ(lpc[t]) : LockStepTo(t, to)
SweeperLockStep == \E to \in Succ(lpc[Sweeper]) : LockStepTo(Sweeper, to)
WatcherLockStep == \E to \in Succ(lpc[Watcher]) : LockStepTo(Watcher, to)

\* no task is followed and no lock is held
LocksIdle ==
    /\ dh_mutex = Free
    /\ im_mutex = Free
    /\ lpc = <<>>

(***************************************************************************)
(* The debugEcho discovery handler: discover and the loop it spawns        *)
(***************************************************************************)
\* discovery_handler_config.descriptions of the Configuration
Descriptions == <<"foo0", "foo1">>

\* mpsc::channel(4)
EchoChannelCap == 4

\* the Device built from a description
Device(description) ==
    [id |-> description, properties |-> <<>>, mounts |-> <<>>, device_specs |-> <<>>]

\* descriptions.iter().map(..).collect::<Vec<Device>>()
AllDevices == [i \in 1..Len(Descriptions) |-> Device(Descriptions[i])]

\* what a read of the availability file shows
Availability(contains_offline) == IF contains_offline THEN "offline" ELSE "online"

\* one iteration of the loop: the two branches, in the order of the code
echo_round(contains_offline, offline, first_loop) ==
    IF (contains_offline /\ ~offline) \/ (offline /\ first_loop)
    THEN [send |-> TRUE, offline |-> TRUE, devices |-> <<>>]
    ELSE IF (~contains_offline /\ offline) \/ (~offline /\ first_loop)
    THEN [send |-> TRUE, offline |-> FALSE, devices |-> AllDevices]
    ELSE [send |-> FALSE, offline |-> offline, devices |-> <<>>]

EchoNotCalled ==
    [pc |-> "idle", offline |-> FALSE, first_loop |-> TRUE, out |-> <<>>, polled |-> "none"]

EchoIdle ==
    /\ file_offline = FALSE
    /\ echo = EchoNotCalled
    /\ echo_ch = <<>>
    /\ echo_rx = FALSE

EchoFrame ==
    UNCHANGED <<hvars, hist, ivars, stream, other_clients, pvars, lvars, other_stopped, ovars>>

\* discover up to tokio::spawn: the configuration is parsed, the file is read
\* once and the receiver is returned
EchoDiscover(valid) ==
    /\ echo.pc = "idle"
    /\ echo' = IF valid
               THEN [echo EXCEPT !.pc = "poll", !.offline = file_offline, !.first_loop = TRUE]
               ELSE [echo EXCEPT !.pc = "rejected"]
    /\ echo_rx' = valid
    /\ UNCHANGED <<file_offline, echo_ch>>
    /\ EchoFrame

\* the loop from the read of the file to the send or to the delay;
\* polled records what the read showed
EchoPoll ==
    /\ echo.pc = "poll"
    /\ LET r == echo_round(file_offline, echo.offline, echo.first_loop) IN
          echo' = [pc |-> IF r.send THEN "send" ELSE "delay",
                   offline |-> r.offline,
                   first_loop |-> IF r.send THEN FALSE ELSE echo.first_loop,
                   out |-> r.devices,
                   polled |-> Availability(file_offline)]
    /\ UNCHANGED <<file_offline, echo_ch, echo_rx>>
    /\ EchoFrame

\* tx.send(..).await: an error when the receiver is gone, else the response
\* is queued as soon as the channel has room
EchoSend ==
    /\ echo.pc = "send"
    /\ IF ~echo_rx
       THEN /\ echo' = [echo EXCEPT !.pc = "done"]
            /\ UNCHANGED echo_ch
       ELSE /\ Len(echo_ch) < EchoChannelCap
            /\ echo_ch' = Append(echo_ch, echo.out)
            /\ echo' = [echo EXCEPT !.pc = "delay"]
    /\ UNCHANGED <<file_offline, echo_rx>>
    /\ EchoFrame

\* delay_for(DISCOVERY_INTERVAL_SECS)
EchoDelay ==
    /\ echo.pc = "delay"
    /\ echo' = [echo EXCEPT !.pc = "poll"]
    /\ UNCHANGED <<file_offline, echo_ch, echo_rx>>
    /\ EchoFrame

\* somebody writes the availability file
EchoFileWrite(contains_offline) ==
    /\ file_offline # contains_offline
    /\ file_offline' = contains_offline
    /\ UNCHANGED <<echo, echo_ch, echo_rx>>
    /\ EchoFrame

\* the caller takes a response from the stream
EchoRecv ==
    /\ echo_rx
    /\ echo_ch # <<>>
    /\ echo_ch' = Tail(echo_ch)
    /\ UNCHANGED <<file_offline, echo, echo_rx>>
    /\ EchoFrame

\* the caller drops the stream
EchoCancel ==
    /\ echo_rx
    /\ echo_rx' = FALSE
    /\ echo_ch' = <<>>
    /\ UNCHANGED <<file_offline, echo>>
    /\ EchoFrame

(***************************************************************************)
(* The ONVIF discovery handler: discover, the loop it spawns, apply_filters *)
(***************************************************************************)
\* the device service URLs that a probe can return
Uris == {"http://10.0.0.1/onvif/device_service", "http://10.0.0.2/onvif/device_service"}

\* the longest list of URLs one probe returns
MaxUris == 2

\* mpsc::channel(4)
OnvifChannelCap == 4

\* the Vec<String> values simple_onvif_discover can return
UriLists == UNION {[1..n -> Uris] : n \in 0..MaxUris}

Range(list) == {list[i] : i \in 1..Len(list)}

\* OnvifQuery::get_device_ip_and_mac_address of a camera that answers
IpAndMac(uri) ==
    IF uri = "http://10.0.0.1/onvif/device_service"
    THEN <<"10.0.0.1", "00:00:00:00:00:01">>
    ELSE <<"10.0.0.2", "00:00:00:00:00:02">>

NoFilter == [action |-> "None", items |-> <<>>]

\* the ipAddresses filter lists of the Configuration; the items are whole
\* addresses
IpFilters ==
    {NoFilter,
     [action |-> "Include", items |-> <<"10.0.0.1">>],
     [action |-> "Exclude", items |-> <<"10.0.0.1">>]}

\* str.contains(pattern), for patterns that are whole addresses
Contains(str, pattern) == str = pattern

\* execute_filter: TRUE when the camera is to be left out
execute_filter(filter_list, filter_against) ==
    IF filter_list.action = "None" THEN FALSE
    ELSE LET filter_count ==
                 Cardinality({i \in 1..Len(filter_list.items) :
                     \E j \in 1..Len(filter_against) :
                         Contains(filter_against[j], filter_list.items[i])})
         IN  IF filter_list.action = "Include" THEN filter_count = 0
             ELSE filter_count # 0

\* the Device pushed for a camera that passed the filters
OnvifDevice(uri) ==
    [id |-> <<IpAndMac(uri)[1], "-", IpAndMac(uri)[2]>>,
     properties |-> [ONVIF_DEVICE_SERVICE_URL |-> uri,
                     ONVIF_DEVICE_IP_ADDRESS |-> IpAndMac(uri)[1],
                     ONVIF_DEVICE_MAC_ADDRESS |-> IpAndMac(uri)[2]],
     mounts |-> <<>>, device_specs |-> <<>>]

\* apply_filters: one pass over the URLs in their order; a camera whose
\* queries fail or that a filter leaves out is skipped
RECURSIVE apply_filters(_, _, _)
apply_filters(ip_addresses, device_service_uris, silent) ==
    IF device_service_uris = <<>> THEN <<>>
    ELSE LET device_service_url == Head(device_service_uris)
             rest == apply_filters(ip_addresses, Tail(device_service_uris), silent)
         IN  IF device_service_url \in silent THEN rest
             ELSE IF execute_filter(ip_addresses, <<IpAndMac(device_service_url)[1]>>) THEN rest
             ELSE <<OnvifDevice(device_service_url)>> \o rest

\* a comparison of the two lists as sets
changed_as_sets(filtered_onvif_cameras, cameras) ==
    Range(filtered_onvif_cameras) # Range(cameras)

\* the for_each over the filtered cameras and the test that follows it:
\* a camera that `cameras` does not contain, or a count of contained cameras
\* that differs from cameras.len()
changed_camera_list(filtered_onvif_cameras, cameras) ==
    LET changed == \E i \in 1..Len(filtered_onvif_cameras) :
                       filtered_onvif_cameras[i] \notin Range(cameras)
        matching_camera_count ==
            Cardinality({i \in 1..Len(filtered_onvif_cameras) :
                            filtered_onvif_cameras[i] \in Range(cameras)})
    IN  changed \/ matching_camera_count # Len(cameras)

OnvifNotCalled ==
    [pc |-> "idle", ip_addresses |-> NoFilter, cameras |-> <<>>, filtered |-> <<>>]

OnvifIdle ==
    /\ onvif = OnvifNotCalled
    /\ onvif_ch = <<>>
    /\ onvif_rx = FALSE
    /\ shutdown = [sender |-> FALSE, signals |-> 0]
    /\ onvif_sent = <<>>

OnvifFrame ==
    UNCHANGED <<hvars, hist, ivars, stream, other_clients, pvars, lvars, other_stopped, evars>>

\* discover up to tokio::spawn: the configuration is parsed and the receiver
\* is returned; cameras starts empty
OnvifDiscover(valid, ip_addresses) ==
    /\ onvif.pc = "idle"
    /\ onvif' = IF valid
                THEN [onvif EXCEPT !.pc = "round", !.ip_addresses = ip_addresses,
                                   !.cameras = <<>>]
                ELSE [onvif EXCEPT !.pc = "rejected"]
    /\ onvif_rx' = valid
    /\ UNCHANGED <<onvif_ch, shutdown, onvif_sent>>
    /\ OnvifFrame

\* one round from the probe to the send or to the delay
OnvifRound(discovered_onvif_cameras, silent) ==
    /\ onvif.pc = "round"
    /\ LET filtered_onvif_cameras ==
               apply_filters(onvif.ip_addresses, discovered_onvif_cameras, silent)
       IN  onvif' =
               IF changed_camera_list(filtered_onvif_cameras, onvif.cameras)
               THEN [onvif EXCEPT !.pc = "send", !.cameras = filtered_onvif_cameras,
                                  !.filtered = filtered_onvif_cameras]
               ELSE [onvif EXCEPT !.pc = "delay", !.filtered = filtered_onvif_cameras]
    /\ UNCHANGED <<onvif_ch, onvif_rx, shutdown, onvif_sent>>
    /\ OnvifFrame

\* simple_onvif_discover returns an error: the unwrap ends the task
OnvifProbeFails ==
    /\ onvif.pc = "round"
    /\ onvif' = [onvif EXCEPT !.pc = "panicked"]
    /\ UNCHANGED <<onvif_ch, onvif_rx, shutdown, onvif_sent>>
    /\ OnvifFrame

\* tx.send(..).await: when the receiver is gone the shutdown sender, if there
\* is one, is signalled and the loop ends; else the response is queued as
\* soon as the channel has room
OnvifSend ==
    /\ onvif.pc = "send"
    /\ IF ~onvif_rx
       THEN /\ onvif' = [onvif EXCEPT !.pc = "done"]
            /\ shutdown' = IF shutdown.sender
                           THEN [shutdown EXCEPT !.signals = @ + 1]
                           ELSE shutdown
            /\ UNCHANGED <<onvif_ch, onvif_sent>>
       ELSE /\ Len(onvif_ch) < OnvifChannelCap
            /\ onvif_ch' = Append(onvif_ch, onvif.filtered)
            /\ onvif_sent' = onvif.filtered
            /\ onvif' = [onvif EXCEPT !.pc = "delay"]
            /\ UNCHANGED shutdown
    /\ UNCHANGED onvif_rx
    /\ OnvifFrame

\* delay_for(DISCOVERY_INTERVAL_SECS)
OnvifDelay ==
    /\ onvif.pc = "delay"
    /\ onvif' = [onvif EXCEPT !.pc = "round"]
    /\ UNCHANGED <<onvif_ch, onvif_rx, shutdown, onvif_sent>>
    /\ OnvifFrame

\* the caller takes a response from the stream
OnvifRecv ==
    /\ onvif_rx
    /\ onvif_ch # <<>>
    /\ onvif_ch' = Tail(onvif_ch)
    /\ UNCHANGED <<onvif, onvif_rx, shutdown, onvif_sent>>
    /\ OnvifFrame

\* the caller drops the stream
OnvifCancel ==
    /\ onvif_rx
    /\ onvif_rx' = FALSE
    /\ onvif_ch' = <<>>
    /\ UNCHANGED <<onvif, shutdown, onvif_sent>>
    /\ OnvifFrame

XIdle ==
    /\ LocksIdle
    /\ other_stopped = {}
    /\ EchoIdle
    /\ OnvifIdle

(***************************************************************************)
(* get_stream as a function of the endpoint, the socket root and the       *)
(* answers of the embedded registry and of the handler                     *)
(***************************************************************************)
\* the characters of EMBEDDED_DISCOVERY_HANDLER_ENDPOINT
EmbeddedChars == <<"e", "m", "b", "e", "d", "d", "e", "d">>

\* endpoints: the embedded literal, sockets in two directories, a network
\* address, and a string of which the embedded literal is a proper extension
GsEndpoints ==
    { EmbeddedChars,
      <<"/", "v", "/", "a">>,
      <<"/", "w", "/", "a">>,
      <<"h", ":", "1">>,
      <<"e", "m">> }

\* values of discovery_handler_path: a directory, a prefix of the embedded
\* literal, and the empty string
GsPaths == { <<"/", "v">>, <<"e", "m", "b">>, <<>> }

\* str::starts_with
starts_with(str, pat) ==
    /\ Len(pat) <= Len(str)
    /\ SubSeq(str, 1, Len(pat)) = pat

\* what get_stream returns or does after the connection: discover().await
\* .unwrap() panics when the handler rejects the call
Discovered(stream_type, discovers) == IF discovers THEN stream_type ELSE "panic"

\* get_stream that looks at the socket root before the embedded literal
get_stream_socket_first(endpoint, discovery_handler_path, recognized, connects, discovers) ==
    IF starts_with(endpoint, discovery_handler_path)
    THEN [via |-> "uds",
          ret |-> IF connects THEN Discovered("External", discovers) ELSE "None"]
    ELSE IF endpoint = EmbeddedChars /\ recognized
    THEN [via |-> "handler", ret |-> Discovered("Internal", discovers)]
    ELSE [via |-> "network",
          ret |-> IF connects THEN Discovered("External", discovers) ELSE "None"]

\* get_stream: via is the way the handler is reached (get_discovery_handler,
\* UnixStream::connect or DiscoveryClient::connect), ret the Option returned;
\* recognized is get_discovery_handler(discovery_details).is_ok(), connects
\* the success of the connect, discovers the success of the Discover call
get_stream(endpoint, discovery_handler_path, recognized, connects, discovers) ==
    IF endpoint = EmbeddedChars /\ recognized
    THEN [via |-> "handler", ret |-> Discovered("Internal", discovers)]
    ELSE IF starts_with(endpoint, discovery_handler_path)
    THEN [via |-> "uds",
          ret |-> IF connects THEN Discovered("External", discovers) ELSE "None"]
    ELSE [via |-> "network",
          ret |-> IF connects THEN Discovered("External", discovers) ELSE "None"]

\* get_stream has not returned
Pending == [via |-> "none", ret |-> "pending"]

\* no call of get_stream is looked at
NoGetStream ==
    [endpoint |-> <<>>, path |-> <<>>, recognized |-> FALSE, connects |-> FALSE,
     discovers |-> FALSE, out |-> Pending]

\* the call returns
GetStreamReturns ==
    /\ gs # NoGetStream
    /\ gs.out = Pending
    /\ gs' = [gs EXCEPT !.out = get_stream(gs.endpoint, gs.path, gs.recognized,
                                           gs.connects, gs.discovers)]
    /\ UNCHANGED <<xvars, hvars, hist, ivars, stream, other_clients, blake, digests>>

(***************************************************************************)
(* inner_generate_instance_digest as a function of the id, the shared flag *)
(* and AGENT_NODE_NAME                                                     *)
(***************************************************************************)
\* node names, and the ids that are digested
NodeNames == { <<"n">>, <<"m">> }
DigestIds == { <<"c">> }

\* the strings the hasher can be given
HashInputs == DigestIds \cup {id \o node : id \in DigestIds, node \in NodeNames}

\* the values VarBlake2b::new(3) can take: DigestLen bytes; nothing but its
\* being a function of the hashed string is known of it
Bytes == 0..MaxByte
DigestValues == [1..DigestLen -> Bytes]

\* format!("{:02x}", num)
HexDigits == <<"0", "1", "2", "3", "4", "5", "6", "7",
               "8", "9", "a", "b", "c", "d", "e", "f">>
LowerHex02(num) == <<HexDigits[(num \div 16) + 1], HexDigits[(num % 16) + 1]>>

\* .collect::<Vec<String>>().join("")
RECURSIVE Join(_)
Join(strings) ==
    IF strings = <<>> THEN <<>> ELSE Head(strings) \o Join(Tail(strings))

\* the string handed to hasher.update, salted also for a shared device
salted_always(id_to_digest, shared, node_name) == id_to_digest \o node_name

\* the string handed to hasher.update
id_to_hash(id_to_digest, shared, node_name) ==
    IF ~shared THEN id_to_digest \o node_name ELSE id_to_digest

inner_generate_instance_digest(id_to_digest, shared, node_name) ==
    LET var == blake[id_to_hash(id_to_digest, shared, node_name)]
    IN  Join([i \in 1..DigestLen |-> LowerHex02(var[i])])

\* the hasher is not looked at
NoHash == <<>>

\* a call with AGENT_NODE_NAME = node_name returns
GenerateDigest(id, shared, node_name) ==
    LET call == [id |-> id, shared |-> shared, node |-> node_name,
                 digest |-> inner_generate_instance_digest(id, shared, node_name)]
    IN  /\ blake # NoHash
        /\ call \notin digests
        /\ digests' = digests \cup {call}
        /\ UNCHANGED <<xvars, hvars, hist, ivars, stream, other_clients, gs, blake>>

(***************************************************************************)
(* Specification of the sessions and the supervisor                        *)
(***************************************************************************)
\* a stream on which nothing has been sent, with no stop message; reported
\* are the ids of the devices in the responses taken from it so far
NewStream ==
    [buf |-> <<>>, sent |-> 0, taken |-> <<>>, reported |-> {}, stop |-> FALSE,
     ended |-> FALSE]

\* no instance and no call in progress
InstIdle ==
    /\ other_clients = {}
    /\ stream = [p \in Endpoints |-> NewStream]
    /\ instance_map = <<>>
    /\ rec = [p \in Reconcilers |-> IdleCall]
    /\ api_deletes = [n \in InstanceNames |-> 0]
    /\ last = NoCall
    /\ gs = NoGetStream
    /\ blake = NoHash
    /\ digests = {}
    /\ XIdle

\* no session is observed
Unobserved == hist = [on |-> FALSE, log |-> <<>>]

Init ==
    /\ InstIdle
    /\ Unobserved
    /\ alive \in [LateEndpoints -> BOOLEAN]
    /\ dh_map = [e \in Endpoints \ LateEndpoints |-> Details(e, "Online", InstantNow)]
    /\ pending_reg = LateEndpoints
    /\ nh_rx = <<>>
    /\ stop_sent = FALSE
    /\ stop_rx2 = "empty"
    /\ stop_rx3 = "empty"
    /\ reconciled = FALSE
    /\ dd = [d \in DiscoverTasks |-> IF d = InitialTask THEN "start" ELSE "none"]
    /\ sess = [s \in Sessions |-> [pc |-> "none", rx |-> "none"]]
    /\ t2pc = "select"
    /\ t3pc = "loop"
    /\ mainpc = "join"

SessionStep(s) ==
    \/ GetStreamSome(s)
    \/ GetStreamNone(s)
    \/ Subscribe(s)
    \/ RecvStop(s)
    \/ OnBrokenPipe(s)
    \/ Wake(s)

SessionEvent(s) ==
    \/ GetStreamPanic(s)
    \/ \E ok \in BOOLEAN : StreamMessage(s, ok)
    \/ StreamNone(s)
    \/ StreamBrokenPipe(s)
    \/ StreamOtherError(s)

Next ==
    \/ Tick
    \/ \E e \in LateEndpoints : HandlerDown(e)
    \/ \E e \in LateEndpoints : HandlerUp(e)
    \/ \E e \in LateEndpoints : Register(e)
    \/ SendStop
    \/ \E d \in DiscoverTasks : DoDiscover(d)
    \/ \E d \in DiscoverTasks : DoDiscoverJoin(d)
    \/ \E s \in Sessions : SessionStep(s)
    \/ \E s \in Sessions : SessionEvent(s)
    \/ T2Stop
    \/ T2NewHandler
    \/ T2Join
    \/ \E ok \in BOOLEAN : T3Round(ok)
    \/ MainJoin

Spec == Init /\ [][Next]_vars

(***************************************************************************)
(* Specification of one do_discover over handlers that registered before   *)
(* the Configuration was applied; the calls of the session of the external *)
(* handler on the operator are recorded                                    *)
(***************************************************************************)
SessInit ==
    /\ InstIdle
    /\ hist = [on |-> TRUE, log |-> <<>>]
    /\ alive \in [LateEndpoints -> BOOLEAN]
    /\ dh_map = [e \in Endpoints |-> Details(e, "Online", InstantNow)]
    /\ pending_reg = {}
    /\ nh_rx = <<>>
    /\ stop_sent = FALSE
    /\ stop_rx2 = "empty"
    /\ stop_rx3 = "empty"
    /\ reconciled = FALSE
    /\ dd = [d \in DiscoverTasks |-> IF d = InitialTask THEN "start" ELSE "none"]
    /\ sess = [s \in Sessions |-> [pc |-> "none", rx |-> "none"]]
    /\ t2pc = "select"
    /\ t3pc = "loop"
    /\ mainpc = "join"

SessNext ==
    \/ Tick
    \/ \E e \in LateEndpoints : HandlerDown(e)
    \/ \E e \in LateEndpoints : HandlerUp(e)
    \/ SendStop
    \/ \E d \in DiscoverTasks : DoDiscover(d)
    \/ \E d \in DiscoverTasks : DoDiscoverJoin(d)
    \/ \E s \in Sessions : SessionStep(s)
    \/ \E s \in Sessions : SessionEvent(s)
    \/ T2Stop
    \/ T2Join
    \/ \E ok \in BOOLEAN : T3Round(ok)
    \/ MainJoin

SpecSession == SessInit /\ [][SessNext]_vars

(***************************************************************************)
(* Specification of the Instance Map of the Configuration: the sessions of *)
(* the two handlers pass responses to handle_discovery_results while task  *)
(* 3 sweeps                                                                *)
(***************************************************************************)
InstInit ==
    /\ InstIdle
    /\ Unobserved
    /\ alive = [e \in LateEndpoints |-> TRUE]
    /\ dh_map = [e \in Endpoints |-> Details(e, "HasClient", InstantNow)]
    /\ pending_reg = {}
    /\ nh_rx = <<>>
    /\ stop_sent = FALSE
    /\ stop_rx2 = "empty"
    /\ stop_rx3 = "empty"
    /\ reconciled = FALSE
    /\ dd = [d \in DiscoverTasks |-> IF d = InitialTask THEN "join" ELSE "none"]
    /\ sess = [s \in Sessions |->
                 IF s[1] = InitialTask
                 THEN [pc |-> "select", rx |-> "sub"]
                 ELSE [pc |-> "none", rx |-> "none"]]
    /\ t2pc = "select"
    /\ t3pc = "loop"
    /\ mainpc = "join"

UpdateStep(p) ==
    \E n \in DOMAIN rec[p].todo, deleted \in BOOLEAN : UpdateInstance(p, n, deleted)

BuildStep(p) ==
    \E n \in rec[p].newdev, built \in BOOLEAN : BuildDevicePlugin(p, n, built)

InstNext ==
    \/ InstTick
    \/ \E p \in Endpoints, ids \in SUBSET InstDeviceIds : HandleDiscoveryResults(p, ids)
    \/ \E p \in Reconcilers : LockAndClone(p)
    \/ \E p \in Reconcilers : UpdateStep(p)
    \/ \E p \in Endpoints : BuildStep(p)

SpecInst == InstInit /\ [][InstNext]_vars

(***************************************************************************)
(* Specification of internal_do_discover: the select! loop of each session *)
(* over its discovery stream and its stop_discovery receiver, with         *)
(* handle_discovery_results running step by step while the handler sends   *)
(* and task 3 sweeps                                                       *)
(***************************************************************************)
\* the handler sends a response; the stream keeps it until it is taken
HandlerSends(p, ids) ==
    /\ stream[p].sent < MaxResponses
    /\ ~stream[p].ended
    /\ stream' = [stream EXCEPT ![p].sent = @ + 1,
                                ![p].buf = Append(@, [seq |-> stream[p].sent + 1,
                                                      ids |-> ids])]
    /\ UNCHANGED <<xvars, pvars, hvars, other_clients, hist, ivars>>

\* stop_all_discovery sends on dh_details.stop_discovery
StopArrives(p) ==
    /\ ~stream[p].stop
    /\ ~stream[p].ended
    /\ stream' = [stream EXCEPT ![p].stop = TRUE]
    /\ UNCHANGED <<xvars, pvars, hvars, other_clients, hist, ivars>>

\* the session polls select! whatever it is doing
AtAnyTime(p) == rec[p].pc # "panicked"

\* the session is at select!: it is not inside the handler of a branch,
\* where it awaits handle_discovery_results
AtSelect(p) == rec[p].pc = "idle"

\* select!: stream.get_message() yields Some(response), which is passed to
\* handle_discovery_results
TakeResponse(p) ==
    /\ AtSelect(p)
    /\ ~stream[p].ended
    /\ stream[p].buf # <<>>
    /\ rec' = [rec EXCEPT ![p] = StartCall(p, Head(stream[p].buf).ids)]
    /\ stream' = [stream EXCEPT ![p].buf = Tail(@),
                                ![p].taken = Append(@, Head(stream[p].buf).seq),
                                ![p].reported = @ \cup Head(stream[p].buf).ids]
    /\ UNCHANGED <<xvars, pvars, hvars, other_clients, hist, last, instance_map, api_deletes>>

\* select!: the stop message; the loop breaks
TakeStop(p) ==
    /\ AtSelect(p)
    /\ ~stream[p].ended
    /\ stream[p].stop
    /\ stream' = [stream EXCEPT ![p].ended = TRUE]
    /\ UNCHANGED <<xvars, pvars, hvars, other_clients, hist, ivars>>

\* the sessions whose handler sends: that of the external handler
StreamEndpoints == LateEndpoints

StreamNext ==
    \/ InstTick
    \/ \E p \in StreamEndpoints, ids \in SUBSET DeviceIds : HandlerSends(p, ids)
    \/ \E p \in StreamEndpoints : StopArrives(p)
    \/ \E p \in StreamEndpoints : TakeResponse(p)
    \/ \E p \in StreamEndpoints : TakeStop(p)
    \/ \E p \in Reconcilers : LockAndClone(p)
    \/ \E p \in Reconcilers : UpdateStep(p)
    \/ \E p \in StreamEndpoints : BuildStep(p)

SpecStream == InstInit /\ [][StreamNext]_vars

(***************************************************************************)
(* Specification of the calls on the Instance Map that run alone and       *)
(* return: each handle_discovery_results and each check_offline_status     *)
(* runs from its lock to its return with no other call in between, and     *)
(* every try_delete_instance succeeds; last is the summary of the latest   *)
(* call                                                                    *)
(***************************************************************************)
\* the device lists a response carries, the same device possibly twice
Responses == UNION {[1..k -> DeviceIds] : k \in 0..MaxResponseLen}

\* handle_discovery_results: currently_visible_instances, the HashMap from
\* instance name to device
currently_visible_instances(resp, is_local) ==
    {InstanceName(resp[i], is_local) : i \in DOMAIN resp}

\* handle_discovery_results: new_discovery_results, the visible instances
\* with no entry in the Instance Map
new_discovery_results(visible, m) == {n \in visible : n \notin DOMAIN m}

\* the number of build_device_plugin calls a response causes per instance
\* name, were build called for every device of the response
BuildCallsPerDevice(resp, is_local, m) ==
    [n \in InstanceNames |->
        IF n \in DOMAIN m THEN 0
        ELSE Cardinality({i \in DOMAIN resp : InstanceName(resp[i], is_local) = n})]

\* handle_discovery_results: the loop over new_discovery_results calls
\* build_device_plugin once for each of them
BuildCalls(resp, is_local, m) ==
    [n \in InstanceNames |->
        IF n \in new_discovery_results(currently_visible_instances(resp, is_local), m)
        THEN 1 ELSE 0]

\* the Instance Map after the loop over the new instances, were the first
\* failed build to end the loop, when a failing instance comes first
build_device_plugins_until_error(m, newdev, built, shared) ==
    IF newdev \subseteq built
    THEN [n \in DOMAIN m \cup newdev |->
            IF n \in DOMAIN m THEN m[n] ELSE InstanceInfo("Online", InstantNow, shared)]
    ELSE m

\* the Instance Map after the loop over the new instances newdev, of which
\* those in built were built: a failed build is logged and leaves no entry
build_device_plugins(m, newdev, built, shared) ==
    [n \in DOMAIN m \cup (newdev \cap built) |->
        IF n \in DOMAIN m THEN m[n] ELSE InstanceInfo("Online", InstantNow, shared)]

\* the Instance Map after a loop over the clone snapshot that takes
\* decisions[n] for each instance n of it
RECURSIVE RunLoop(_, _, _)
RunLoop(m, snapshot, decisions) ==
    IF DOMAIN snapshot = {} THEN m
    ELSE LET n == CHOOSE k \in DOMAIN snapshot : TRUE
         IN RunLoop(ApplyDecision(m, n, snapshot[n], decisions[n]),
                    MapRemove(snapshot, n), decisions)

\* what a loop over the clone of m does: the map after it, the instances
\* try_delete_instance is called for, and the instances whose
\* list_and_watch_message_sender gets a Continue
LoopOutcome(m, decisions) ==
    [map |-> RunLoop(m, m, decisions),
     deletes |-> {n \in DOMAIN m : decisions[n] = "remove"},
     continues |-> {n \in DOMAIN m : decisions[n] \in {"set_online", "set_offline"}}]

\* update_connectivity_status on the map m
UpdateOutcome(m, visible, is_local) ==
    LoopOutcome(m, [n \in DOMAIN m |->
                      update_connectivity_status(m[n], n \in visible, is_local)])

\* check_offline_status on the map m
SweepOutcome(m) ==
    LoopOutcome(m, [n \in DOMAIN m |-> check_offline_status(m[n])])

\* handle_discovery_results of handler p on the response resp; built are the
\* new instances whose build_device_plugin succeeds
CallReconcile(p, resp, built) ==
    LET visible == currently_visible_instances(resp, IsLocal(p))
        newdev == new_discovery_results(visible, instance_map)
        out == UpdateOutcome(instance_map, visible, IsLocal(p))
    IN /\ built \subseteq newdev
       /\ instance_map' = build_device_plugins(out.map, newdev, built, ~IsLocal(p))
       /\ last' = [caller |-> p, resp |-> resp, pre |-> StatusOf(instance_map),
                   builds |-> BuildCalls(resp, IsLocal(p), instance_map),
                   shared |-> ~IsLocal(p),
                   failed |-> newdev \ built,
                   deletes |-> out.deletes, continues |-> out.continues,
                   again |-> last.caller = p /\ last.resp = resp,
                   gap |-> last.ticked,
                   prev_failed |-> last.failed # {},
                   owed |-> IF last.caller = p THEN last.failed \cap visible ELSE {},
                   ticked |-> FALSE]
       /\ UNCHANGED <<xvars, pvars, hvars, other_clients, stream, hist, rec, api_deletes>>

\* one round of task 3 with the handlers' map unchanged: check_offline_status
CallSweep ==
    LET out == SweepOutcome(instance_map)
    IN /\ instance_map' = out.map
       /\ last' = [NoCall EXCEPT !.caller = Sweeper,
                                 !.pre = StatusOf(instance_map),
                                 !.deletes = out.deletes,
                                 !.continues = out.continues,
                                 !.gap = last.ticked,
                                 !.prev_failed = last.failed # {}]
       /\ UNCHANGED <<xvars, pvars, hvars, other_clients, stream, hist, rec, api_deletes>>

\* TickSecs pass between two calls
CallTick ==
    /\ instance_map' = AdvanceInstances(instance_map)
    /\ last' = [last EXCEPT !.ticked = TRUE]
    /\ <<instance_map', last'>> # <<instance_map, last>>
    /\ UNCHANGED <<xvars, pvars, hvars, other_clients, stream, hist, rec, api_deletes>>

CallNext ==
    \/ \E p \in Endpoints, resp \in Responses :
          \E built \in SUBSET currently_visible_instances(resp, IsLocal(p)) :
             CallReconcile(p, resp, built)
    \/ CallSweep
    \/ CallTick

SpecCall == InstInit /\ [][CallNext]_vars

(***************************************************************************)
(* Fairness of the scheduler: a task that can take a step of its own takes *)
(* it; the handlers, the registration server and the owner of the          *)
(* Configuration are under no obligation                                   *)
(***************************************************************************)
Fairness ==
    /\ WF_vars(Tick)
    /\ \A d \in DiscoverTasks : WF_vars(DoDiscover(d)) /\ WF_vars(DoDiscoverJoin(d))
    /\ \A s \in Sessions : WF_vars(SessionStep(s))
    /\ WF_vars(T2Stop)
    /\ WF_vars(T2NewHandler)
    /\ WF_vars(T2Join)
    /\ WF_vars(T3Round(TRUE))
    /\ WF_vars(MainJoin)

SpecLive == Init /\ [][Next]_vars /\ Fairness

(***************************************************************************)
(* Specification of the registration watcher among handlers of several     *)
(* protocols: the registration server also announces handlers of a         *)
(* protocol that is not the Configuration's                                *)
(***************************************************************************)
\* the registration server inserts a handler of another protocol, under that
\* protocol, and announces the protocol on new_discovery_handler_sender
RegisterOther ==
    /\ t2pc = "select"
    /\ Cardinality({i \in DOMAIN nh_rx : nh_rx[i] = OtherProtocol}) < MaxQueue
    /\ nh_rx' = Append(nh_rx, OtherProtocol)
    /\ UNCHANGED <<xvars, pvars, other_clients, stream, ivars, hist, reconciled, alive, dh_map,
                   pending_reg, stop_sent, stop_rx2, stop_rx3, dd, sess, t2pc, t3pc,
                   mainpc>>

\* start_discovery has spawned task 1 and has not yet subscribed to
\* stop_all_discovery_sender and new_discovery_handler_sender
WatchInit ==
    /\ InstIdle
    /\ Unobserved
    /\ alive \in [LateEndpoints -> BOOLEAN]
    /\ dh_map = [e \in Endpoints \ LateEndpoints |-> Details(e, "Online", InstantNow)]
    /\ pending_reg = LateEndpoints
    /\ nh_rx = <<>>
    /\ stop_sent = FALSE
    /\ stop_rx2 = "empty"
    /\ stop_rx3 = "empty"
    /\ reconciled = FALSE
    /\ dd = [d \in DiscoverTasks |-> IF d = InitialTask THEN "start" ELSE "none"]
    /\ sess = [s \in Sessions |-> [pc |-> "none", rx |-> "none"]]
    /\ t2pc = "spawned"
    /\ t3pc = "loop"
    /\ mainpc = "join"

\* start_discovery subscribes the receivers of task 2, after the spawn of
\* task 1
SubscribeTask2 ==
    /\ t2pc = "spawned"
    /\ t2pc' = "select"
    /\ UNCHANGED <<xvars, pvars, other_clients, stream, ivars, hist, reconciled, alive, dh_map,
                   pending_reg, nh_rx, stop_sent, stop_rx2, stop_rx3, dd, sess,
                   t3pc, mainpc>>

\* the streams yield no response and end only by a broken pipe, and no call
\* on a handler or on the cluster fails
WatchNext ==
    \/ SubscribeTask2
    \/ Tick
    \/ \E e \in LateEndpoints : HandlerDown(e)
    \/ \E e \in LateEndpoints : HandlerUp(e)
    \/ \E e \in LateEndpoints : Register(e)
    \/ RegisterOther
    \/ SendStop
    \/ \E d \in DiscoverTasks : DoDiscover(d)
    \/ \E d \in DiscoverTasks : DoDiscoverJoin(d)
    \/ \E s \in Sessions : SessionStep(s)
    \/ \E s \in Sessions : StreamBrokenPipe(s)
    \/ T2Stop
    \/ T2NewHandler
    \/ T2Join
    \/ T3Round(TRUE)
    \/ MainJoin

SpecWatch == WatchInit /\ [][WatchNext]_vars /\ Fairness /\ WF_vars(SubscribeTask2)

(***************************************************************************)
(* Specification of one Configuration beside another Configuration of the  *)
(* same protocol: both operators work on the same map of registered        *)
(* handlers; of the other operator only the sessions' writes to the map    *)
(* are kept                                                                *)
(***************************************************************************)
\* a session of the other Configuration gets a stream: its do_discover found
\* the entry without client, and get_stream returned Some
OtherConfigOpens(e) ==
    /\ e \in DOMAIN dh_map
    /\ NeedsClient(dh_map[e])
    /\ Reachable(e)
    /\ e \notin other_clients
    /\ dh_map' = set_discovery_handler_connectivity_status(dh_map, e, "HasClient")
    /\ other_clients' = other_clients \cup {e}
    /\ other_stopped' = other_stopped \ {e}
    /\ UNCHANGED <<lvars, evars, ovars, pvars, stream, ivars, hist, reconciled, alive, pending_reg, nh_rx, stop_sent,
                   stop_rx2, stop_rx3, dd, sess, t2pc, t3pc, mainpc>>

\* the stream of a session of the other Configuration ends
OtherConfigEnds(e) ==
    /\ e \in other_clients
    /\ e \notin other_stopped
    /\ dh_map' = set_discovery_handler_connectivity_status(dh_map, e, "Online")
    /\ other_clients' = other_clients \ {e}
    /\ UNCHANGED <<xvars, pvars, stream, ivars, hist, reconciled, alive, pending_reg, nh_rx, stop_sent,
                   stop_rx2, stop_rx3, dd, sess, t2pc, t3pc, mainpc>>

\* a session of the other Configuration takes the stop message in its
\* select!, breaks, and sets the entry Online
OtherConfigStopped(e) ==
    /\ e \in other_clients
    /\ e \in other_stopped
    /\ dh_map' = set_discovery_handler_connectivity_status(dh_map, e, "Online")
    /\ other_clients' = other_clients \ {e}
    /\ other_stopped' = other_stopped \ {e}
    /\ UNCHANGED <<lvars, evars, ovars, pvars, stream, ivars, hist, reconciled, alive, pending_reg, nh_rx, stop_sent,
                   stop_rx2, stop_rx3, dd, sess, t2pc, t3pc, mainpc>>

\* both handlers have registered before the Configurations are applied
SharedInit ==
    /\ InstIdle
    /\ Unobserved
    /\ alive \in [LateEndpoints -> BOOLEAN]
    /\ dh_map = [e \in Endpoints |-> Details(e, "Online", InstantNow)]
    /\ pending_reg = {}
    /\ nh_rx = <<>>
    /\ stop_sent = FALSE
    /\ stop_rx2 = "empty"
    /\ stop_rx3 = "empty"
    /\ reconciled = FALSE
    /\ dd = [d \in DiscoverTasks |-> IF d = InitialTask THEN "start" ELSE "none"]
    /\ sess = [s \in Sessions |-> [pc |-> "none", rx |-> "none"]]
    /\ t2pc = "select"
    /\ t3pc = "loop"
    /\ mainpc = "join"

SharedNext ==
    \/ SessNext
    \/ \E e \in Endpoints : OtherConfigOpens(e)
    \/ \E e \in Endpoints : OtherConfigEnds(e)
    \/ \E e \in Endpoints : OtherConfigStopped(e)

SpecShared == SharedInit /\ [][SharedNext]_vars /\ Fairness

(***************************************************************************)
(* Specifications of get_stream and of inner_generate_instance_digest,     *)
(* each called on its own                                                  *)
(***************************************************************************)
\* the sessions hold their streams and nothing is reconciled
Parked ==
    /\ Unobserved
    /\ other_clients = {}
    /\ stream = [p \in Endpoints |-> NewStream]
    /\ instance_map = <<>>
    /\ rec = [p \in Reconcilers |-> IdleCall]
    /\ api_deletes = [n \in InstanceNames |-> 0]
    /\ last = NoCall
    /\ alive = [e \in LateEndpoints |-> TRUE]
    /\ dh_map = [e \in Endpoints |-> Details(e, "HasClient", InstantNow)]
    /\ pending_reg = {}
    /\ nh_rx = <<>>
    /\ stop_sent = FALSE
    /\ stop_rx2 = "empty"
    /\ stop_rx3 = "empty"
    /\ reconciled = FALSE
    /\ dd = [d \in DiscoverTasks |-> IF d = InitialTask THEN "join" ELSE "none"]
    /\ sess = [s \in Sessions |->
                 IF s[1] = InitialTask
                 THEN [pc |-> "select", rx |-> "sub"]
                 ELSE [pc |-> "none", rx |-> "none"]]
    /\ t2pc = "select"
    /\ t3pc = "loop"
    /\ mainpc = "join"

\* get_stream is called with any of the inputs
GetStreamInit ==
    /\ Parked
    /\ XIdle
    /\ blake = NoHash
    /\ digests = {}
    /\ gs \in [endpoint : GsEndpoints, path : GsPaths, recognized : BOOLEAN,
                connects : BOOLEAN, discovers : BOOLEAN, out : {Pending}]

GetStreamNext == GetStreamReturns

SpecGetStream == GetStreamInit /\ [][GetStreamNext]_vars

\* the hasher is any function of the hashed string
DigestInit ==
    /\ Parked
    /\ XIdle
    /\ gs = NoGetStream
    /\ digests = {}
    /\ blake \in [HashInputs -> DigestValues]

DigestNext ==
    \E id \in DigestIds, shared \in BOOLEAN, node_name \in NodeNames :
        GenerateDigest(id, shared, node_name)

SpecDigest == DigestInit /\ [][DigestNext]_vars

(***************************************************************************)
(* Specification of the sweeper beside the session of the external         *)
(* handler, under the scheduler: task 3 sweeps again and again, a call     *)
(* that has begun goes on, and time passes                                 *)
(***************************************************************************)
SweepNext ==
    \/ InstTick
    \/ \E ids \in SUBSET InstDeviceIds : HandleDiscoveryResults(UdsEndpoint, ids)
    \/ \E p \in {UdsEndpoint, Sweeper} : LockAndClone(p)
    \/ \E p \in {UdsEndpoint, Sweeper} : UpdateStep(p)
    \/ BuildStep(UdsEndpoint)

SweepFairness ==
    /\ WF_vars(InstTick)
    /\ \A p \in {UdsEndpoint, Sweeper} : WF_vars(LockAndClone(p)) /\ WF_vars(UpdateStep(p))
    /\ WF_vars(BuildStep(UdsEndpoint))

SpecSweep == InstInit /\ [][SweepNext]_vars /\ SweepFairness

(***************************************************************************)
(* Specification of the tasks of one Configuration on the two locks        *)
(***************************************************************************)
\* no function of the two is called on its own
PureIdle ==
    /\ gs = NoGetStream
    /\ blake = NoHash
    /\ digests = {}

LocksInit ==
    /\ Parked
    /\ PureIdle
    /\ dh_mutex = Free
    /\ im_mutex = Free
    /\ lpc = [t \in LockTasks |-> Entry(t)]
    /\ other_stopped = {}
    /\ EchoIdle
    /\ OnvifIdle

\* the debugEcho handler before a call of discover, with either content of
\* the availability file
EchoInit ==
    /\ Parked
    /\ PureIdle
    /\ LocksIdle
    /\ other_stopped = {}
    /\ OnvifIdle
    /\ file_offline \in BOOLEAN
    /\ echo = EchoNotCalled
    /\ echo_ch = <<>>
    /\ echo_rx = FALSE

EchoNext ==
    \/ \E valid \in BOOLEAN : EchoDiscover(valid)
    \/ EchoPoll
    \/ EchoSend
    \/ EchoDelay
    \/ \E contains_offline \in BOOLEAN : EchoFileWrite(contains_offline)
    \/ EchoRecv
    \/ EchoCancel

SpecEcho == EchoInit /\ [][EchoNext]_vars

\* the ONVIF handler before a call of discover, built with or without a
\* shutdown sender
OnvifInit ==
    /\ Parked
    /\ PureIdle
    /\ LocksIdle
    /\ other_stopped = {}
    /\ EchoIdle
    /\ onvif = OnvifNotCalled
    /\ onvif_ch = <<>>
    /\ onvif_rx = FALSE
    /\ shutdown \in [sender : BOOLEAN, signals : {0}]
    /\ onvif_sent = <<>>

OnvifNext ==
    \/ \E valid \in BOOLEAN, ip_addresses \in IpFilters : OnvifDiscover(valid, ip_addresses)
    \/ \E discovered_onvif_cameras \in UriLists, silent \in SUBSET Uris :
           OnvifRound(discovered_onvif_cameras, silent)
    \/ OnvifProbeFails
    \/ OnvifSend
    \/ OnvifDelay
    \/ OnvifRecv
    \/ OnvifCancel

SpecOnvif == OnvifInit /\ [][OnvifNext]_vars

LocksNext ==
    \/ \E t \in Endpoints : SessionLockStep(t)
    \/ SweeperLockStep
    \/ WatcherLockStep

SpecLocks == LocksInit /\ [][LocksNext]_vars

(***************************************************************************)
(* Properties of the sessions and the supervisor                           *)
(***************************************************************************)
\* the session has marked the entry HasClient and drives the stream
Holding(s) == sess[s].pc \in {"connected", "select"}
\* the session task exists and has not ended
Live(s) == sess[s].pc \notin {"none", "done", "panicked"}
SessionsOf(e) == {s \in Sessions : s[2] = e}
HasClient(e) == e \in DOMAIN dh_map /\ dh_map[e].cs = "HasClient"

\* C1: for every endpoint at most one session holds an open discovery stream
AtMostOneSession ==
    \A e \in Endpoints : Cardinality({s \in SessionsOf(e) : Holding(s)}) <= 1

\* C3: when a session whose entry is HasClient has handled a "broken pipe"
\* error, the entry is Offline(now)
BrokenPipeMarksOffline ==
    [][\A s \in Sessions :
          (sess[s].pc = "err_broken_pipe" /\ sess'[s].pc # "err_broken_pipe"
           /\ HasClient(s[2]))
          => /\ s[2] \in DOMAIN dh_map'
             /\ dh_map'[s[2]].cs = "Offline"
             /\ dh_map'[s[2]].since = InstantNow]_vars

\* no other session of the endpoint of s exists
OnlySession(s) == \A o \in SessionsOf(s[2]) \ {s} : sess[o].pc = "none"

\* C4: the only session of an endpoint, its entry HasClient, gets a "broken
\* pipe" error and the endpoint never accepts a connection again: the entry
\* is eventually removed and the session ends
BrokenPipeLeadsToDeregistration ==
    \A s \in SessionsOf(UdsEndpoint) :
        [](( /\ sess[s].pc = "err_broken_pipe"
             /\ HasClient(UdsEndpoint)
             /\ [](~alive[UdsEndpoint] /\ OnlySession(s)) )
           => <>(UdsEndpoint \notin DOMAIN dh_map /\ ~Live(s)))

\* C5: an entry leaves the map only in a step of a session that calls
\* mark_offline_or_deregister_discovery_handler, and only when it was Offline
\* for more than the grace period
RemovedOnlyAfterGrace ==
    [][\A e \in DOMAIN dh_map :
          e \notin DOMAIN dh_map'
          => /\ dh_map[e].cs = "Offline"
             /\ Elapsed(dh_map[e].since) > DISCOVERY_HANDLER_OFFLINE_GRACE_PERIOD_SECS
             /\ \E s \in SessionsOf(e) :
                   /\ sess[s].pc \in {"get_stream", "err_broken_pipe"}
                   /\ sess'[s].pc = "done"]_vars

\* C5 witness: the external handler was registered and its entry was removed
HandlerDeregistered ==
    /\ UdsEndpoint \notin pending_reg
    /\ UdsEndpoint \notin DOMAIN dh_map

\* C6: an entry is HasClient only while a session holds a stream to it or is
\* handling the error of its stream (no session of the endpoint having panicked)
HasClientMeansStream ==
    \A e \in Endpoints :
        (HasClient(e) /\ \A s \in SessionsOf(e) : sess[s].pc # "panicked")
        => \E s \in SessionsOf(e) : Holding(s) \/ sess[s].pc = "err_broken_pipe"

\* a task of the Configuration has panicked
SomePanic ==
    \/ \E s \in Sessions : sess[s].pc = "panicked"
    \/ \E d \in DiscoverTasks : dd[d] = "panicked"
    \/ "panicked" \in {t2pc, t3pc}

\* C7: after the stop signal every session exits and start_discovery emits the
\* finished-discovery notification (unless one of the tasks panics)
StopLeadsToFinished ==
    stop_sent ~> (SomePanic \/ (mainpc = "finished" /\ \A s \in Sessions : ~Live(s)))

\* C8: when stop_all_discovery sends the stop signal, every live session of an
\* entry of the map receives it, whatever the session is doing
StopReachesEverySession ==
    [][(t2pc = "select" /\ t2pc' = "join")
       => \A s \in Sessions :
             (Live(s) /\ s[2] \in DOMAIN dh_map) => sess'[s].rx = "msg"]_vars

\* C9: the finished-discovery notification is emitted only after the initial
\* fanout, the registration watcher, every do_discover they ran with all its
\* sessions, and the sweeper have terminated
FinishedAfterChildren ==
    mainpc = "finished"
    => /\ \A d \in DiscoverTasks : dd[d] \in {"none", "done"}
       /\ t2pc = "done"
       /\ t3pc = "done"
       /\ \A s \in Sessions : sess[s].pc \in {"none", "done"}

\* C9 witness: finished after sessions of the initial fanout and of the
\* watcher's fanout have run and ended
FinishedWithSessions ==
    /\ mainpc = "finished"
    /\ \E s \in Sessions : s[1] = InitialTask /\ sess[s].pc = "done"
    /\ \E s \in Sessions : s[1] # InitialTask /\ sess[s].pc = "done"

\* C10: once start_discovery has returned, no task of the Configuration runs
NoTaskOutlivesSupervisor ==
    mainpc \in {"finished", "failed"}
    => /\ \A s \in Sessions : ~Live(s)
       /\ \A d \in DiscoverTasks : dd[d] \in {"none", "done", "panicked"}
       /\ t2pc \in {"done", "panicked"}
       /\ t3pc \in {"done", "panicked"}

\* C16: a session that drives a stream and stops for the stop message, the
\* end of the stream or an error other than "broken pipe" leaves the entry
\* Online and ends
CleanEndSetsOnline ==
    [][\A s \in Sessions :
          (sess[s].pc = "select"
           /\ sess'[s].pc \notin {"select", "err_broken_pipe", "panicked"})
          => /\ sess'[s].pc = "done"
             /\ s[2] \in DOMAIN dh_map'
             /\ dh_map'[s[2]].cs = "Online"]_vars

\* C17: the first open of a session fails and does not deregister the entry;
\* when its second open gives a stream that completes (no broken pipe, no
\* panic), the session has called mark_offline_or_deregister once, then set
\* HasClient once, then Online once, and has ended
ReconnectThenComplete ==
    LET log == hist.log
        pc == sess[ObservedSession].pc
    IN  /\ log # <<>> => log[1] # "deregistered"
        /\ ( /\ Len(log) >= 2
             /\ log[1] = "mark_offline"
             /\ log[2] = "HasClient"
             /\ pc \notin {"connected", "select", "err_broken_pipe", "panicked"}
             /\ Len(log) >= 3 => log[3] \notin {"mark_offline", "deregistered"} )
           => /\ log = <<"mark_offline", "HasClient", "Online">>
              /\ pc = "done"
              /\ UdsEndpoint \in DOMAIN dh_map

\* C17 witness: the session has ended after a failed open, a stream and its end
ReconnectedAndEnded ==
    /\ hist.log = <<"mark_offline", "HasClient", "Online">>
    /\ sess[ObservedSession].pc = "done"

\* C18: for every endpoint at most one session task is live
AtMostOneLiveSession ==
    \A e \in Endpoints : Cardinality({s \in SessionsOf(e) : Live(s)}) <= 1

(***************************************************************************)
(* Properties of the Instance Map                                          *)
(***************************************************************************)
\* C2: an instance of a shared device leaves the Instance Map only when it was
\* Offline for at least the shared-instance grace period
SharedRemovedOnlyAfterGrace ==
    [][\A n \in DOMAIN instance_map :
          (n \notin DOMAIN instance_map' /\ instance_map[n].plugin_shared)
          => /\ instance_map[n].cs = "Offline"
             /\ Elapsed(instance_map[n].since) >= SHARED_INSTANCE_OFFLINE_GRACE_PERIOD_SECS]_vars

\* C12: try_delete_instance is called only in a step that removes the instance
\* from the Instance Map: a removal decided on a snapshot for an instance that
\* has been removed since makes no call
DeleteCalledOnce ==
    [][\A n \in InstanceNames :
          api_deletes'[n] # api_deletes[n] /\ api_deletes'[n] # 0
          => n \in DOMAIN instance_map /\ n \notin DOMAIN instance_map']_vars

\* C14: no caller of handle_discovery_results or check_offline_status (a
\* session, task 3) dies of a failed try_delete_instance
DeleteFailureNotPropagated ==
    \A p \in Reconcilers : rec[p].pc # "panicked"

\* C11: when a call of handle_discovery_results for the local handler has
\* returned, no local instance that the call found in the map and that is
\* absent from the response is in the map, whatever its status was
LocalRemovedAtReturn ==
    last.caller \in Endpoints /\ IsLocal(last.caller)
    => \A n \in DOMAIN last.pre :
          ~last.pre[n].plugin_shared
          /\ n \notin currently_visible_instances(last.resp, TRUE)
          => n \notin DOMAIN instance_map

\* C13 as stated: on every Instance Map a run of the sweeper does what
\* update_connectivity_status does with an empty set of visible instances:
\* the same map, the same DeleteInstance calls, the same notifier messages
SweepIsUpdateWithNothingVisible ==
    \A l \in BOOLEAN :
        SweepOutcome(instance_map) = UpdateOutcome(instance_map, {}, l)

\* C13: on the Offline instances of the map a run of the sweeper does what
\* update_connectivity_status does with an empty set of visible instances,
\* and it leaves the Online instances as they are
SweepIsUpdateOfOfflineInstances ==
    LET offline == [n \in {k \in DOMAIN instance_map : instance_map[k].cs = "Offline"}
                      |-> instance_map[n]]
        online == [n \in {k \in DOMAIN instance_map : instance_map[k].cs = "Online"}
                     |-> instance_map[n]]
    IN \A l \in BOOLEAN :
          /\ SweepOutcome(offline) = UpdateOutcome(offline, {}, l)
          /\ SweepOutcome(instance_map) =
                [SweepOutcome(offline) EXCEPT !.map = online @@ SweepOutcome(offline).map]

\* the sweeper has removed an instance from a map that holds an Online one
SweptPastGrace ==
    /\ last.caller = Sweeper
    /\ last.deletes # {}
    /\ \E n \in DOMAIN instance_map : instance_map[n].cs = "Online"

\* C15: when the Build of a new device fails, Build is still called for
\* every other new device of the response and those built enter the map,
\* the call returns, the failed device has no entry in the map, and a next
\* response of the handler that contains the device has Build called for it
\* again
BuildFailureIsSkipped ==
    last.caller \in Endpoints
    => LET visible == currently_visible_instances(last.resp, IsLocal(last.caller))
           newdev == visible \ DOMAIN last.pre
       IN /\ last.failed \subseteq newdev
          /\ \A n \in newdev : last.builds[n] = 1
          /\ \A n \in newdev \ last.failed :
                n \in DOMAIN instance_map /\ instance_map[n].cs = "Online"
          /\ \A n \in last.failed : n \notin DOMAIN instance_map
          /\ \A n \in last.owed : last.builds[n] = 1

\* a Build fails again for a device whose Build failed in the handler's call
\* before, while another new device of the response is built
BuildFailedAgainOtherBuilt ==
    /\ last.caller \in Endpoints
    /\ last.owed \cap last.failed # {}
    /\ \E n \in DOMAIN instance_map : last.builds[n] = 1

\* the observable effects of the latest call are none: the instances, their
\* device plugins and their connectivity are those it found, and it made no
\* DeleteInstance call and sent no notifier message
LastCallChangedNothing ==
    /\ StatusOf(instance_map) = last.pre
    /\ last.deletes = {}
    /\ last.continues = {}

BuildOncePerNewInstance ==
    last.caller \in Endpoints
    => /\ last.shared = ~IsLocal(last.caller)
       /\ \A n \in InstanceNames :
             last.builds[n] =
                IF n \notin DOMAIN last.pre
                   /\ \E i \in DOMAIN last.resp :
                         InstanceName(last.resp[i], IsLocal(last.caller)) = n
                THEN 1 ELSE 0
       /\ \A n \in DOMAIN instance_map :
             last.builds[n] = 1 => instance_map[n].plugin_shared = last.shared

\* a response names a new device twice and a device that has an entry
DuplicateDeviceBuilt ==
    /\ last.caller \in Endpoints
    /\ Len(last.resp) = 2 /\ last.resp[1] = last.resp[2]
    /\ \E n \in InstanceNames : last.builds[n] = 1 /\ n \in DOMAIN instance_map

\* C21: an instance of a shared device that is Offline for less than the
\* grace period stays in the Instance Map and try_delete_instance is not
\* called for it, whoever runs: a session or the sweeper
OfflineSharedKeptWithinGrace ==
    [][\A n \in DOMAIN instance_map :
          ( /\ instance_map[n].plugin_shared
            /\ instance_map[n].cs = "Offline"
            /\ Elapsed(instance_map[n].since) < SHARED_INSTANCE_OFFLINE_GRACE_PERIOD_SECS )
          => /\ n \in DOMAIN instance_map'
             /\ api_deletes'[n] = api_deletes[n]]_vars

\* C22: the loop of update_connectivity_status sends Continue on the notifier
\* of an instance exactly in the steps that flip the connectivity of that
\* instance in the Instance Map (Offline to Online, or Online to Offline)
ContinueOnlyOnFlip ==
    [][\A p \in Endpoints, n \in InstanceNames :
          ( /\ rec[p].pc = "update"
            /\ n \in DOMAIN rec[p].todo
            /\ rec'[p].pc # "update" \/ n \notin DOMAIN rec'[p].todo )
          => ( Decision(p, n) \in {"set_online", "set_offline"}
               <=> /\ n \in DOMAIN instance_map
                   /\ n \in DOMAIN instance_map'
                   /\ instance_map'[n].cs # instance_map[n].cs )]_vars

\* C23: a call of mark_offline_or_deregister_discovery_handler by a session
\* takes an Online entry to Offline(now) and returns false, removes an entry
\* that is Offline for more than the grace period and returns true, leaves an
\* entry that is Offline within the grace period or HasClient as it is and
\* returns false; it returns true exactly when it removed the entry, and it
\* touches no other entry
MarkOfflineTable ==
    [][\A s \in Sessions :
          ( /\ sess[s].pc \in {"get_stream", "err_broken_pipe"}
            /\ sess'[s].pc \in {"sleep", "done"} )
          => LET e == s[2]
                 returned == sess'[s].pc = "done"
             IN /\ \A o \in DOMAIN dh_map \ {e} :
                      o \in DOMAIN dh_map' /\ dh_map'[o] = dh_map[o]
                /\ DOMAIN dh_map' \subseteq DOMAIN dh_map
                /\ returned <=> (e \in DOMAIN dh_map /\ e \notin DOMAIN dh_map')
                /\ e \in DOMAIN dh_map =>
                      CASE dh_map[e].cs = "Online" ->
                             /\ ~returned
                             /\ dh_map'[e] = [dh_map[e] EXCEPT !.cs = "Offline",
                                                                !.since = InstantNow]
                        [] dh_map[e].cs = "Offline"
                           /\ Elapsed(dh_map[e].since) > DISCOVERY_HANDLER_OFFLINE_GRACE_PERIOD_SECS ->
                             returned
                        [] OTHER ->
                             ~returned /\ dh_map'[e] = dh_map[e]]_vars

\* a session sleeps before its next attempt on an entry that has been
\* Offline for a while, inside the grace period
AsleepWithinGrace ==
    \E s \in Sessions :
        /\ sess[s].pc = "sleep"
        /\ s[2] \in DOMAIN dh_map
        /\ dh_map[s[2]].cs = "Offline"
        /\ Elapsed(dh_map[s[2]].since) > 0
        /\ Elapsed(dh_map[s[2]].since) <= DISCOVERY_HANDLER_OFFLINE_GRACE_PERIOD_SECS

\* C24: a call of set_discovery_handler_connectivity_status by a session
\* (HasClient when it got a stream, Online when its stream ended) changes the
\* status of the entry of its endpoint and nothing else; when the map has no
\* entry for the endpoint the map is left as it is
SetStatusFrame ==
    [][\A s \in Sessions :
          LET e == s[2]
              set_has_client == sess[s].pc = "get_stream" /\ sess'[s].pc = "connected"
              set_online == sess[s].pc = "select" /\ sess'[s].pc = "done"
          IN (set_has_client \/ set_online)
             => /\ DOMAIN dh_map' = DOMAIN dh_map
                /\ \A o \in DOMAIN dh_map \ {e} : dh_map'[o] = dh_map[o]
                /\ e \in DOMAIN dh_map =>
                      /\ dh_map'[e].cs = IF set_online THEN "Online" ELSE "HasClient"
                      /\ dh_map'[e].is_local = dh_map[e].is_local]_vars

\* a session holds a stream to an endpoint that has no entry in the map
StreamWithoutEntry ==
    \E s \in Sessions :
        /\ sess[s].pc = "connected"
        /\ s[2] \notin DOMAIN dh_map
        /\ s[2] \notin pending_reg

\* C25: a session takes the responses of its stream in the order of their
\* arrival, and it takes the next response or reacts to the stop message
\* only when the handle_discovery_results of the response before has returned
OneResponseAtATime ==
    [][\A p \in Endpoints :
          /\ stream'[p].taken # stream[p].taken
             => /\ rec[p].pc = "idle"
                /\ stream[p].buf # <<>>
                /\ stream'[p].taken = Append(stream[p].taken, Head(stream[p].buf).seq)
                /\ \A i \in DOMAIN stream'[p].taken : stream'[p].taken[i] = i
          /\ (stream'[p].ended /\ ~stream[p].ended) => rec[p].pc = "idle"]_vars

\* the next response and the stop message wait while the session is in the
\* loop of update_connectivity_status for the response before
ResponseWaitsForReconcile ==
    \E p \in Endpoints :
        /\ rec[p].pc = "update"
        /\ stream[p].taken # <<>>
        /\ stream[p].buf # <<>>
        /\ stream[p].stop

\* C26: every handler that stays registered and reachable gets a session of
\* this Configuration that holds a stream to it (as long as the Configuration
\* is not stopped and no task of it panics), also when another Configuration
\* names the same protocol
EveryHandlerGetsSession ==
    \A e \in Endpoints :
        <>( \/ \E s \in SessionsOf(e) : Holding(s)
            \/ ~Reachable(e)
            \/ e \notin DOMAIN dh_map
            \/ stop_sent
            \/ SomePanic )

\* a session of this Configuration has called get_stream on the endpoint
OpenAttempted(e) ==
    \E s \in SessionsOf(e) : sess[s].pc \notin {"none", "get_stream"}

\* C27: every handler inserted into the map under the Configuration's
\* protocol after start_discovery has started gets an open attempted on its
\* endpoint by a session of this Configuration, unless the stop signal is
\* sent or a task panics first; and a notification that carries another
\* protocol name makes task 2 spawn nothing
NewHandlerGetsSession ==
    /\ \A e \in LateEndpoints :
          [](e \in DOMAIN dh_map => <>(OpenAttempted(e) \/ stop_sent \/ SomePanic))
    /\ [][( /\ nh_rx # <<>>
             /\ Head(nh_rx) # ConfigProtocol
             /\ nh_rx' = Tail(nh_rx)
             /\ t2pc' = "select" )
          => (dd' = dd /\ sess' = sess)]_vars

\* the endpoint starts with the socket root: some prefix of it is the root
UnderRoot(endpoint, root) == \E k \in 0..Len(endpoint) : SubSeq(endpoint, 1, k) = root

\* the Option a connect leads to
AfterConnect(call) ==
    IF ~call.connects THEN "None" ELSE IF call.discovers THEN "External" ELSE "panic"

\* C28: get_stream classifies the endpoint in this order: the embedded
\* literal with discovery details the embedded registry recognizes is served
\* by the embedded handler and gives an Internal stream; otherwise an endpoint
\* that starts with the socket root is connected as a Unix-domain socket;
\* otherwise it is connected as a network address; a failed connect in the
\* second and third case returns None
GetStreamClassifies ==
    gs.out # Pending =>
        LET embedded == gs.endpoint = EmbeddedChars /\ gs.recognized
            socket == ~embedded /\ UnderRoot(gs.endpoint, gs.path)
        IN  /\ embedded =>
                  /\ gs.out.via = "handler"
                  /\ gs.discovers => gs.out.ret = "Internal"
            /\ socket => gs.out.via = "uds" /\ gs.out.ret = AfterConnect(gs)
            /\ (~embedded /\ ~socket) =>
                  gs.out.via = "network" /\ gs.out.ret = AfterConnect(gs)

\* the embedded literal lies under a socket root that is not empty and its
\* discovery details are not recognized: a connect to it as a socket has
\* failed and None was returned
EmbeddedUnderRootClassified ==
    /\ gs.endpoint = EmbeddedChars
    /\ gs.path # <<>>
    /\ UnderRoot(gs.endpoint, gs.path)
    /\ ~gs.recognized
    /\ gs.out.via = "uds"
    /\ gs.out.ret = "None"

\* two calls for the same raw id
SameId(a, b) == a.id = b.id

KeysNameReportedDevices ==
    \A n \in DOMAIN instance_map :
        \E p \in Endpoints :
            \E id \in stream[p].reported :
                n = <<ConfigName, "-">> \o generate_instance_digest(id, ~dh_map[p].is_local)

\* the handler has reported two devices of which one is an instance; the
\* other has been removed or its device plugin was not built
ReportedAndKept ==
    \E p \in StreamEndpoints :
        /\ Cardinality(stream[p].reported) = 2
        /\ Cardinality(DOMAIN instance_map) = 1
        /\ stream[p].buf = <<>>
        /\ rec[p].pc = "idle"

\* the task cannot go on: each next statement locks a mutex that is held
WaitsForLock(t) ==
    /\ Succ(lpc[t]) # {}
    /\ \A to \in Succ(lpc[t]) :
          \/ DhMutex \in Locks(to) /\ dh_mutex # Free
          \/ ImMutex \in Locks(to) /\ im_mutex # Free

\* C31: no task holds the lock of the Registered-Handler Map at a suspension
\* point, no task holds both locks, no task holds the lock of the Instance
\* Map while it calls terminate_device_plugin_service or the device plugin
\* builder, and no task waits for a lock whose holder cannot go on
LocksNeverNested ==
    \A t \in LockTasks :
        /\ dh_mutex = t => lpc[t] \notin AwaitPositions
        /\ ~(dh_mutex = t /\ im_mutex = t)
        /\ im_mutex = t => lpc[t] \notin LockingCalls
        /\ WaitsForLock(t) =>
              \E u \in LockTasks \ {t} : u \in {dh_mutex, im_mutex} /\ ~WaitsForLock(u)

\* a session is about to call terminate_device_plugin_service while the
\* sweeper holds the lock of the Instance Map and another session that of
\* the Registered-Handler Map
TerminateWhileOthersLock ==
    \E t, u \in Endpoints :
        /\ lpc[t] = "terminate_call"
        /\ im_mutex = Sweeper
        /\ dh_mutex = u

\* the entry of the endpoint has been registered and removed
Removed(e) == e \notin DOMAIN dh_map /\ e \notin pending_reg

\* C32: after the entry of an endpoint has been removed from the map, a
\* session that retries the endpoint makes at most one more open, which
\* fails, and exits on it instead of sleeping and retrying
RemovedEndpointNotRetried ==
    [][\A s \in Sessions :
          ( /\ Removed(s[2])
            /\ sess[s].pc = "get_stream"
            /\ sess'[s].pc # "get_stream" )
          => (~Reachable(s[2]) /\ sess'[s].pc = "done")]_vars

\* C33: a name that is not in the Instance Map enters it only by the build of
\* a device plugin for it; update_connectivity_status, also when it works
\* from a clone taken before the instance was removed, never inserts it
OnlyBuildInserts ==
    [][\A n \in InstanceNames :
          (n \notin DOMAIN instance_map /\ n \in DOMAIN instance_map')
          => \E p \in Endpoints :
                /\ rec[p].pc = "build"
                /\ n \in rec[p].newdev
                /\ n \notin rec'[p].newdev]_vars

\* the instance is one of a shared device and Offline
OfflineShared(n) ==
    /\ n \in DOMAIN instance_map
    /\ instance_map[n].plugin_shared
    /\ instance_map[n].cs = "Offline"

\* C34: an instance of a shared device that is Offline is eventually removed
\* from the Instance Map, unless its device is reported again and it is
\* Online again; no discovery response is needed for it, the sweeper does it
OfflineSharedEventuallySwept ==
    \A n \in InstanceNames :
        [](OfflineShared(n) =>
              <>(n \notin DOMAIN instance_map \/ instance_map[n].cs = "Online"))

\* C34 while task 3 runs: as the claim, for as long as the sweeper has not
\* panicked
SweptWhileSweeperRuns ==
    \A n \in InstanceNames :
        [](OfflineShared(n) =>
              <>( \/ n \notin DOMAIN instance_map
                  \/ instance_map[n].cs = "Online"
                  \/ rec[Sweeper].pc = "panicked" ))

StopReachesOwnSessionsOnly ==
    other_stopped = {}

\* C37: a session leaves get_stream with a stream or with None, also when
\* the handler rejects the Discover call after the connect succeeded: it then
\* sleeps for its retry or exits as deregistered, and its task does not abort
RejectedDiscoverHandledAsNone ==
    [][\A s \in Sessions :
          (sess[s].pc = "get_stream" /\ sess'[s].pc # "get_stream")
              => sess'[s].pc \in {"connected", "sleep", "done"}]_vars

\* C38: the debugEcho stream answers the first poll with one response that
\* follows the availability file (all descriptions as devices without OFFLINE,
\* the empty list with it), answers each later poll with one response exactly
\* when the file's availability differs from that of the poll before, and each
\* response is the complete device list of that poll
EchoRespondsPerChange ==
    [][(echo.pc = "poll" /\ echo'.pc # "poll")
          => /\ (echo'.pc = "send") <=> (echo.polled # Availability(file_offline))
             /\ echo'.pc = "send"
                  => echo'.out = IF file_offline THEN <<>> ELSE AllDevices]_vars

\* the steps of the ONVIF loop that C39 is about
OnvifRoundDone == onvif.pc = "round" /\ onvif'.pc \in {"send", "delay"}

OnvifSendFails == onvif.pc = "send" /\ ~onvif_rx /\ onvif'.pc # "send"

\* what C39 says of a failed send: the shutdown sender, if the handler has
\* one, is signalled once, and the loop is over
SignalsOnceAndStops ==
    /\ onvif'.pc = "done"
    /\ shutdown'.signals = shutdown.signals + (IF shutdown.sender THEN 1 ELSE 0)
    /\ shutdown'.signals <= 1

====
